---- MODULE Spec2Model ----
(***************************************************************************)
(* Model of the WebSocket transport engine of crypto-ws-client             *)
(* (WSClientInternal in clients/ws_client_internal.rs): construction, the  *)
(* subscribed-channel set, the run loop with its liveness supervision, and *)
(* close().                                                                *)
(***************************************************************************)
EXTENDS Integers, Sequences, FiniteSets, TLC

VARIABLES
    cfg,                 \* exchange, url, client_ping_interval_and_msg, server_ping_interval
    pc,                  \* position of the engine task: unbuilt, idle, loop, read, returned
    status,              \* running, exited (std::process::exit), panicked
    exit_reason,         \* which exit/panic site was taken
    connects,            \* number of connect_with_retry calls made
    timeout,             \* read timeout handed to connect_with_retry
    sock,                \* state of ws_stream
    channels,            \* subscribed channels (HashSet)
    wire,                \* frames written to ws_stream, in order
    out,                 \* texts sent on tx, in order
    inbox,               \* texts handed to handle_msg, in order (history)
    should_stop,         \* AtomicBool
    num_unanswered_ping, \* AtomicIsize
    num_read_timeout,    \* local of run()
    now,                 \* the clock (seconds)
    start_timstamp,      \* local of run()
    last_ping_timestamp, \* local of run()
    duration,            \* argument of run()
    last_iter,           \* what the last loop iteration read and how it ended (history)
    pings_since_pong,    \* pings written since the last Pong was read (history)
    close_pc,            \* position of the task calling close()
    closes,              \* number of close() calls completed
    sub,                 \* per calling task: position and locals of subscribe_or_unsubscribe
    last_call,           \* the last subscribe/unsubscribe call and its diff (history)
    rc,                  \* position and locals of the task in _reconnect(), and what it did (history)
    call                 \* the last call of a function outside the engine: its arguments and result

vars == <<cfg, pc, status, exit_reason, connects, timeout, sock, channels, wire,
          out, inbox, should_stop, num_unanswered_ping, num_read_timeout, now,
          start_timstamp, last_ping_timestamp, duration, last_iter,
          pings_since_pong, close_pc, closes, sub, last_call, rc, call>>

\* The state of the WebSocket client and of the tasks calling it.
client_vars == <<cfg, pc, status, exit_reason, connects, timeout, sock, channels, wire,
                 out, inbox, should_stop, num_unanswered_ping, num_read_timeout, now,
                 start_timstamp, last_ping_timestamp, duration, last_iter,
                 pings_since_pong, close_pc, closes, sub, last_call, rc>>

None == [some |-> FALSE]
Some(x) == [some |-> TRUE, v |-> x]

\* ---------------------------------------------------------------- bounds
MaxTime == 7
MaxElapsed == 3
MaxInbox == 3
MaxWire == 7
MaxTimeouts == 7
MaxCloses == 2

\* ---------------------------------------------------------------- configuration
MXC_EXCHANGE_NAME == "mxc"
MXC_SPOT_WEBSOCKET_URL == "wss://wbs.mxc.com/socket.io"
OKEX_EXCHANGE_NAME == "okex"
OKEX_WEBSOCKET_URL == "wss://real.okex.com:8443/ws/v3"
BINANCE_EXCHANGE_NAME == "binance"
BITSTAMP_EXCHANGE_NAME == "bitstamp"
BITSTAMP_WEBSOCKET_URL == "wss://ws.bitstamp.net"
OTHER_URL == "wss://other"

Endpoints ==
    { <<OKEX_EXCHANGE_NAME, OKEX_WEBSOCKET_URL>>,
      <<BINANCE_EXCHANGE_NAME, OTHER_URL>>,
      <<MXC_EXCHANGE_NAME, MXC_SPOT_WEBSOCKET_URL>>,
      <<BITSTAMP_EXCHANGE_NAME, BITSTAMP_WEBSOCKET_URL>> }

ClientPings == { None, Some(<<2, <<>> >>), Some(<<3, <<"p","i","n","g">> >>) }
ServerPings == { None, Some(2) }
Durations == { None, Some(1) }

Configs ==
    { [exchange |-> e[1], url |-> e[2],
       client_ping_interval_and_msg |-> cp, server_ping_interval |-> sp] :
        e \in Endpoints, cp \in ClientPings, sp \in ServerPings }

IsSome(x) == x.some
BothSet(c) == IsSome(c.client_ping_interval_and_msg) /\ IsSome(c.server_ping_interval)
NeitherSet(c) == ~IsSome(c.client_ping_interval_and_msg) /\ ~IsSome(c.server_ping_interval)

Tasks == { "t1", "t2" }
SubIdle == [pc |-> "idle", diff |-> <<>>, subscribe |-> TRUE]

\* No function outside the engine has been called.
NoCall == [fn |-> "none"]

\* No _reconnect() has been called.
RcIdle == [pc |-> "idle", snap |-> <<>>, before |-> {}, commands |-> <<>>,
           failed |-> {}, conn |-> 0, n |-> 0]

\* Everything but the configuration and what WSClientInternal::new sets.
InitRest ==
    /\ status = "running"
    /\ exit_reason = ""
    /\ channels = {}
    /\ wire = <<>>
    /\ out = <<>>
    /\ inbox = <<>>
    /\ should_stop = FALSE
    /\ num_unanswered_ping = 0
    /\ num_read_timeout = 0
    /\ now = 0
    /\ start_timstamp = 0
    /\ last_ping_timestamp = 0
    /\ duration = None
    /\ last_iter = [read |-> "none", code |-> "", left |-> "no"]
    /\ pings_since_pong = 0
    /\ close_pc = "idle"
    /\ closes = 0
    /\ sub = [t \in Tasks |-> SubIdle]
    /\ last_call = [op |-> "none", req |-> <<>>, before |-> {}, diff |-> <<>>]
    /\ rc = RcIdle
    /\ call = NoCall

\* Before construction: new() has been called with some configuration.
Init ==
    /\ cfg \in Configs
    /\ pc = "unbuilt"
    /\ connects = 0
    /\ timeout = None
    /\ sock = "NoSocket"
    /\ InitRest

\* ---------------------------------------------------------------- new
\* The read timeout computed by WSClientInternal::new, or a panic when both are set.
\* The timeout computed without the panic: the client ping wins.
NewTimeout_NoPanic(c) ==
    IF IsSome(c.client_ping_interval_and_msg)
    THEN [panic |-> FALSE, timeout |-> Some(c.client_ping_interval_and_msg.v[1] \div 2)]
    ELSE [panic |-> FALSE, timeout |-> c.server_ping_interval]

NewTimeout(c) ==
    IF IsSome(c.client_ping_interval_and_msg) /\ IsSome(c.server_ping_interval)
    THEN [panic |-> TRUE, timeout |-> None]
    ELSE IF IsSome(c.client_ping_interval_and_msg)
         THEN [panic |-> FALSE, timeout |-> Some(c.client_ping_interval_and_msg.v[1] \div 2)]
         ELSE [panic |-> FALSE, timeout |-> c.server_ping_interval]

new ==
    /\ pc = "unbuilt" /\ status = "running"
    /\ IF NewTimeout(cfg).panic
       THEN /\ status' = "panicked"
            /\ exit_reason' = "new: both ping settings"
            /\ UNCHANGED <<pc, connects, timeout, sock>>
       ELSE /\ timeout' = NewTimeout(cfg).timeout
            /\ connects' = connects + 1
            /\ sock' = "Active"
            /\ pc' = "idle"
            /\ UNCHANGED <<status, exit_reason>>
    /\ UNCHANGED <<call, rc, cfg, channels, wire, out, inbox, should_stop, num_unanswered_ping,
                   num_read_timeout, now, start_timstamp, last_ping_timestamp,
                   duration, last_iter, pings_since_pong, close_pc, closes, sub,
                   last_call>>

\* The state right after WSClientInternal::new returned a client configured as
\* one of cs.
InitBuilt(cs) ==
    /\ cfg \in { c \in cs : ~NewTimeout(c).panic }
    /\ pc = "idle"
    /\ connects = 1
    /\ timeout = NewTimeout(cfg).timeout
    /\ sock = "Active"
    /\ InitRest

\* A second passes while the engine is blocked in read_message().
Tick(limit) ==
    /\ status = "running" /\ pc = "read"
    /\ now < limit
    /\ now' = now + 1
    /\ UNCHANGED <<call, rc, cfg, pc, status, exit_reason, connects, timeout, sock, channels,
                   wire, out, inbox, should_stop, num_unanswered_ping,
                   num_read_timeout, start_timstamp, last_ping_timestamp, duration,
                   last_iter, pings_since_pong, close_pc, closes, sub, last_call>>

\* ---------------------------------------------------------------- messages
\* Texts are sequences of characters, so that strip_prefix does what it does.
TextA == <<"4","2","a">>
TextB == <<"b">>
TextPong == <<"p">>
TextMisc == <<"m">>
TextReconnect == <<"r">>
TextWs == <<"w">>
Texts == { TextA, TextB, TextPong, TextMisc, TextReconnect, TextWs }
BinTexts == { TextB, TextMisc }
PingData == { <<"x">>, <<"y">> }
CloseCodes == { "Normal", "Away", "Protocol", "NoFrame" }

TextMsg(txt) == [t |-> "Text", txt |-> txt]
BinaryMsg(enc, txt) == [t |-> "Binary", enc |-> enc, txt |-> txt]
PingMsg(d) == [t |-> "Ping", data |-> d]
PongMsg_Empty(d) == [t |-> "Pong", data |-> <<>>]
PongMsg(d) == [t |-> "Pong", data |-> d]
CloseMsg(code) == [t |-> "Close", code |-> code]
ErrMsg(e) == [t |-> "Err", e |-> e]

\* What read_message() can return, by the state of the socket.
ReadOutcomes(s) ==
    IF s = "Terminated" THEN { ErrMsg("AlreadyClosed") }
    ELSE IF s \in { "Active", "ClosedByUs" }
    THEN { TextMsg(x) : x \in Texts }
         \cup { BinaryMsg(e, x) : e \in { "gzip", "deflate" }, x \in BinTexts }
         \cup { PingMsg(d) : d \in PingData }
         \cup { PongMsg(<<>>) }
         \cup { CloseMsg(c) : c \in CloseCodes }
         \cup { ErrMsg(e) : e \in { "WouldBlock", "Interrupted", "BrokenPipe", "IoOther",
                                    "ResetWithoutClosingHandshake", "ProtocolOther",
                                    "Other" } }
    ELSE { ErrMsg(e) : e \in { "ConnectionClosed", "WouldBlock", "Interrupted",
                               "ProtocolOther" } }

\* The classifier handed to the engine: a function of the text alone.
on_misc_msg(txt) ==
    IF txt = TextPong THEN "Pong"
    ELSE IF txt = TextMisc THEN "Misc"
    ELSE IF txt = TextReconnect THEN "Reconnect"
    ELSE IF txt = TextWs THEN "WebSocket"
    ELSE "Normal"

\* The frame a WebSocket(ws_msg) classification asks the engine to write.
WsReply(txt) == TextMsg(<<"a","c","k">>)

strip_prefix(txt, p) ==
    IF Len(txt) >= Len(p) /\ SubSeq(txt, 1, Len(p)) = p
    THEN Some(SubSeq(txt, Len(p) + 1, Len(txt)))
    ELSE None

\* Decompression of a Binary frame: Ok(text), Err, or the panic for an exchange
\* with no binary format.
Decompress(exchange, bin) ==
    IF exchange \in { "huobi", BINANCE_EXCHANGE_NAME, "bitget", "bitz" }
    THEN IF bin.enc = "gzip" THEN [r |-> "Ok", txt |-> bin.txt] ELSE [r |-> "Err", txt |-> <<>>]
    ELSE IF exchange = OKEX_EXCHANGE_NAME
    THEN IF bin.enc = "deflate" THEN [r |-> "Ok", txt |-> bin.txt] ELSE [r |-> "Err", txt |-> <<>>]
    ELSE [r |-> "panic", txt |-> <<>>]

\* write_message on the socket: the frame reaches the wire only when the socket
\* is active and the write succeeds.
WriteOk(s) == s = "Active"
Written(by, frame) == [by |-> by, frame |-> frame, conn |-> connects]

\* ---------------------------------------------------------------- run
\* The locals and fields one loop iteration works on.
IterState ==
    [ out |-> out, wire |-> wire, inbox |-> inbox, sock |-> sock,
      num_unanswered_ping |-> num_unanswered_ping,
      num_read_timeout |-> num_read_timeout,
      last_ping_timestamp |-> last_ping_timestamp,
      pings_since_pong |-> pings_since_pong,
      succeeded |-> FALSE, status |-> "running", reason |-> "", break |-> FALSE ]

Exit(s, why) == [s EXCEPT !.status = "exited", !.reason = why]
Panic(s, why) == [s EXCEPT !.status = "panicked", !.reason = why]

\* The text put on tx for a Normal message; None when nothing is sent.
Forwarded(c, txt) ==
    IF c.exchange = MXC_EXCHANGE_NAME /\ c.url = MXC_SPOT_WEBSOCKET_URL
    THEN strip_prefix(txt, <<"4","2">>)
    ELSE Some(txt)

\* handle_msg forwarding every text that is not an exit, whatever its class.
handle_msg_ForwardAll(s0, txt) ==
    LET s == [s0 EXCEPT !.inbox = Append(@, txt)]
        m == on_misc_msg(txt)
    IN  IF m = "Reconnect" THEN Exit(s, "reconnect")
        ELSE IF Forwarded(cfg, txt) = None
             THEN [s EXCEPT !.succeeded = TRUE]
             ELSE [s EXCEPT !.out = Append(@, Forwarded(cfg, txt).v), !.succeeded = TRUE]

\* handle_msg putting a Normal text at the front of the output.
handle_msg_Prepend(s0, txt) ==
    LET s == [s0 EXCEPT !.inbox = Append(@, txt)]
        m == on_misc_msg(txt)
    IN  IF m = "Reconnect" THEN Exit(s, "reconnect")
        ELSE IF m = "Pong"
        THEN [s EXCEPT !.num_unanswered_ping = 0, !.pings_since_pong = 0]
        ELSE IF m # "Normal" THEN s
        ELSE IF Forwarded(cfg, txt) = None
             THEN [s EXCEPT !.succeeded = TRUE]
             ELSE [s EXCEPT !.out = <<Forwarded(cfg, txt).v>> \o @, !.succeeded = TRUE]

handle_msg(s0, txt) ==
    LET s == [s0 EXCEPT !.inbox = Append(@, txt)]
        m == on_misc_msg(txt)
    IN  IF m = "Misc" THEN s
        ELSE IF m = "Pong"
        THEN [s EXCEPT !.num_unanswered_ping = 0, !.pings_since_pong = 0]
        ELSE IF m = "Reconnect" THEN Exit(s, "reconnect")
        ELSE IF m = "WebSocket"
        THEN IF WriteOk(s.sock)
             THEN [s EXCEPT !.wire = Append(@, Written("engine", WsReply(txt)))]
             ELSE s
        ELSE IF Forwarded(cfg, txt) = None
             THEN [s EXCEPT !.succeeded = TRUE]
             ELSE [s EXCEPT !.out = Append(@, Forwarded(cfg, txt).v), !.succeeded = TRUE]

\* Message::Close treating every code but Normal as fatal.
on_close_OnlyNormal(s, code) ==
    LET s1 == [s EXCEPT !.sock = IF @ = "Active" THEN "ClosedByPeer"
                                  ELSE "CloseAcknowledged"]
    IN  IF code # "NoFrame" /\ code # "Normal"
        THEN Exit(s1, "close frame")
        ELSE s1

\* Message::Close(resp): a frame with a code other than Normal and Away exits
\* the process; Normal, Away and a Close without a frame are only logged.
on_close(s, code) ==
    LET s1 == [s EXCEPT !.sock = IF @ = "Active" THEN "ClosedByPeer"
                                  ELSE "CloseAcknowledged"]
    IN  IF code # "NoFrame" /\ code # "Normal" /\ code # "Away"
        THEN Exit(s1, "close frame")
        ELSE s1

\* The match on the result of read_message().
Dispatch(s0, r) ==
    IF r.t = "Err"
    THEN IF r.e = "ConnectionClosed" THEN Exit(s0, "ConnectionClosed")
         ELSE IF r.e = "AlreadyClosed" THEN Panic(s0, "AlreadyClosed")
         ELSE IF r.e = "WouldBlock"
         THEN [s0 EXCEPT !.num_read_timeout = @ + 1]
         ELSE IF r.e = "Interrupted" THEN s0
         ELSE IF r.e \in { "BrokenPipe", "IoOther" } THEN Exit(s0, "io error")
         ELSE IF r.e = "ResetWithoutClosingHandshake"
         THEN Exit(s0, "ResetWithoutClosingHandshake")
         ELSE IF r.e = "ProtocolOther" THEN s0
         ELSE Panic(s0, "read error")
    ELSE LET s == [s0 EXCEPT !.num_read_timeout = 0] IN
         IF r.t = "Text" THEN handle_msg(s, r.txt)
         ELSE IF r.t = "Binary"
         THEN LET resp == Decompress(cfg.exchange, r) IN
              IF resp.r = "panic" THEN Panic(s, "unknown binary format")
              ELSE IF resp.r = "Err" THEN s
              ELSE handle_msg(s, resp.txt)
         ELSE IF r.t = "Ping"
         THEN IF WriteOk(s.sock)
              THEN [s EXCEPT !.wire = Append(@, Written("engine", PongMsg(r.data)))]
              ELSE s
         ELSE IF r.t = "Pong"
         THEN [s EXCEPT !.num_unanswered_ping = 0, !.pings_since_pong = 0]
         ELSE on_close(s, r.code)

\* The ping sent as a Ping frame whatever the payload.
PingMessage_AlwaysPingFrame(interval_and_msg) == PingMsg(interval_and_msg[2])

\* The ping the engine sends.
PingMessage(interval_and_msg) ==
    IF interval_and_msg[2] = <<>> THEN PingMsg(<<>>) ELSE TextMsg(interval_and_msg[2])

\* Supervise exiting as soon as the counters reach 5.
Supervise_ExitAtFive(s) ==
    IF IsSome(cfg.client_ping_interval_and_msg)
    THEN IF s.num_unanswered_ping >= 5 THEN Exit(s, "num_unanswered_ping") ELSE s
    ELSE IF s.num_read_timeout >= 5 THEN Exit(s, "num_read_timeout")
    ELSE s

\* The liveness supervision at the end of an iteration.
Supervise(s) ==
    IF IsSome(cfg.client_ping_interval_and_msg)
    THEN LET interval_and_msg == cfg.client_ping_interval_and_msg.v IN
         IF s.num_unanswered_ping > 5 THEN Exit(s, "num_unanswered_ping")
         ELSE IF now - s.last_ping_timestamp >= interval_and_msg[1] \div 2
         THEN LET s1 == [s EXCEPT !.last_ping_timestamp = now] IN
              IF WriteOk(s.sock)
              THEN [s1 EXCEPT !.wire = Append(@, Written("engine", PingMessage(interval_and_msg))),
                              !.pings_since_pong = @ + 1]
              ELSE s1
         ELSE s
    ELSE IF s.num_read_timeout > 5 THEN Exit(s, "num_read_timeout")
    ELSE s

\* The duration bound without the test of succeeded.
DurationBound_IgnoreSucceeded(s) ==
    IF IsSome(duration) /\ now - start_timstamp > duration.v
    THEN [s EXCEPT !.break = TRUE]
    ELSE s

\* The duration bound.
DurationBound(s) ==
    IF IsSome(duration) /\ now - start_timstamp > duration.v /\ s.succeeded
    THEN [s EXCEPT !.break = TRUE]
    ELSE s

\* One pass that tests the count of read timeouts in both ping modes.
Iteration_CountTimeouts(r) ==
    LET d == Dispatch(IterState, r) IN
    IF d.status # "running" THEN d
    ELSE IF d.num_read_timeout > 5 THEN Exit(d, "num_read_timeout")
    ELSE LET p == Supervise(d) IN
         IF p.status # "running" THEN p ELSE DurationBound(p)

Iteration(r) ==
    LET d == Dispatch(IterState, r) IN
    IF d.status # "running" THEN d
    ELSE LET p == Supervise(d) IN
         IF p.status # "running" THEN p ELSE DurationBound(p)

ReadKind(r) ==
    IF r.t = "Err" THEN r.e
    ELSE IF r.t = "Text" THEN on_misc_msg(r.txt)
    ELSE IF r.t = "Binary"
    THEN IF Decompress(cfg.exchange, r).r # "Ok"
         THEN "BadBinary" ELSE on_misc_msg(Decompress(cfg.exchange, r).txt)
    ELSE r.t

CallsHandleMsg(r) ==
    \/ r.t = "Text"
    \/ r.t = "Binary" /\ Decompress(cfg.exchange, r).r = "Ok"

run_start(d) ==
    /\ status = "running" /\ pc = "idle"
    /\ duration' = d
    /\ start_timstamp' = now
    /\ last_ping_timestamp' = now
    /\ num_read_timeout' = 0
    /\ pc' = "loop"
    /\ UNCHANGED <<call, rc, cfg, status, exit_reason, connects, timeout, sock, channels, wire,
                   out, inbox, should_stop, num_unanswered_ping, now, last_iter,
                   pings_since_pong, close_pc, closes, sub, last_call>>

\* while !self.should_stop.load(..)
run_check ==
    /\ status = "running" /\ pc = "loop"
    /\ IF should_stop
       THEN /\ pc' = "returned"
            /\ last_iter' = [last_iter EXCEPT !.left = "should_stop"]
       ELSE /\ pc' = "read"
            /\ last_iter' = [read |-> "none", code |-> "", left |-> "no"]
    /\ UNCHANGED <<call, rc, cfg, status, exit_reason, connects, timeout, sock, channels, wire,
                   out, inbox, should_stop, num_unanswered_ping, num_read_timeout, now,
                   start_timstamp, last_ping_timestamp, duration, pings_since_pong,
                   close_pc, closes, sub, last_call>>

\* One pass through the loop body: read, dispatch, supervise, duration bound.
run_iteration(r) ==
    /\ status = "running" /\ pc = "read"
    /\ r \in ReadOutcomes(sock)
    \* a read times out only on a socket that was given a read timeout
    /\ (r.t = "Err" /\ r.e = "WouldBlock") => IsSome(timeout)
    /\ CallsHandleMsg(r) => Len(inbox) < MaxInbox
    /\ LET s == Iteration(r) IN
       /\ Len(s.wire) <= MaxWire
       /\ s.num_read_timeout <= MaxTimeouts
       /\ out' = s.out
       /\ wire' = s.wire
       /\ inbox' = s.inbox
       /\ sock' = s.sock
       /\ num_unanswered_ping' = s.num_unanswered_ping
       /\ num_read_timeout' = s.num_read_timeout
       /\ last_ping_timestamp' = s.last_ping_timestamp
       /\ pings_since_pong' = s.pings_since_pong
       /\ status' = s.status
       /\ exit_reason' = s.reason
       /\ pc' = IF s.status # "running" THEN pc
                ELSE IF s.break THEN "returned" ELSE "loop"
       /\ last_iter' = [read |-> ReadKind(r),
                        code |-> IF r.t = "Close" THEN r.code ELSE "",
                        left |-> IF s.break THEN "duration" ELSE "no"]
    /\ UNCHANGED <<call, rc, cfg, connects, timeout, channels, should_stop, now, start_timstamp,
                   duration, close_pc, closes, sub, last_call>>

\* ---------------------------------------------------------------- close
\* close() flipping the flag instead of setting it.
close_store_Toggle ==
    /\ status = "running" /\ pc \notin { "unbuilt" }
    /\ close_pc = "idle" /\ closes < MaxCloses
    /\ should_stop' = ~should_stop
    /\ close_pc' = "stored"
    /\ UNCHANGED <<call, rc, cfg, pc, status, exit_reason, connects, timeout, sock, channels,
                   wire, out, inbox, num_unanswered_ping, num_read_timeout, now,
                   start_timstamp, last_ping_timestamp, duration, last_iter,
                   pings_since_pong, closes, sub, last_call>>

\* self.should_stop.store(true)
close_store ==
    /\ status = "running" /\ pc \notin { "unbuilt" }
    /\ close_pc = "idle" /\ closes < MaxCloses
    /\ should_stop' = TRUE
    /\ close_pc' = "stored"
    /\ UNCHANGED <<call, rc, cfg, pc, status, exit_reason, connects, timeout, sock, channels,
                   wire, out, inbox, num_unanswered_ping, num_read_timeout, now,
                   start_timstamp, last_ping_timestamp, duration, last_iter,
                   pings_since_pong, closes, sub, last_call>>

\* self.ws_stream.lock().unwrap().close(None): an active socket starts the
\* closing handshake, any other is left as it is; an error is only logged.
close_socket(ok) ==
    /\ status = "running" /\ close_pc = "stored"
    /\ sock' = IF sock = "Active" THEN "ClosedByUs" ELSE sock
    /\ wire' = IF sock = "Active" /\ ok
               THEN Append(wire, Written("closer", CloseMsg("NoFrame")))
               ELSE wire
    /\ Len(wire') <= MaxWire
    /\ close_pc' = "idle"
    /\ closes' = closes + 1
    /\ UNCHANGED <<call, rc, cfg, pc, status, exit_reason, connects, timeout, channels, out,
                   inbox, should_stop, num_unanswered_ping, num_read_timeout, now,
                   start_timstamp, last_ping_timestamp, duration, last_iter,
                   pings_since_pong, sub, last_call>>

\* ---------------------------------------------------------------- subscribe / unsubscribe
ChA == <<"a">>
ChB == <<"b">>
ChRaw == <<"{","c","}">>
Channels == { ChA, ChB, ChRaw }
MaxReq == 2
Requests == UNION { [1..n -> Channels] : n \in 0..MaxReq }

Range(f) == { f[i] : i \in DOMAIN f }

\* bitstamp: one command per channel, a channel that is already a JSON object
\* is sent as it is
channel_to_command(channel, subscribe) ==
    IF Len(channel) > 0 /\ channel[1] = "{"
    THEN [op |-> "raw", args |-> <<channel>>]
    ELSE [op |-> IF subscribe THEN "bts:subscribe" ELSE "bts:unsubscribe",
          args |-> <<channel>>]

\* topics_to_command ignoring its flag.
topics_to_command_AlwaysSubscribe(chunk, subscribe) ==
    [op |-> "subscribe", args |-> chunk]

\* okex: {"op":..,"args":[..]}
topics_to_command(chunk, subscribe) ==
    [op |-> IF subscribe THEN "subscribe" ELSE "unsubscribe", args |-> chunk]

\* The channels_to_commands handed to the engine, by exchange.  The lists used
\* here are far below the okex frame size, so they make one chunk.
channels_to_commands(exchange, chs, subscribe) ==
    IF exchange = BITSTAMP_EXCHANGE_NAME
    THEN [i \in 1..Len(chs) |-> channel_to_command(chs[i], subscribe)]
    ELSE <<topics_to_command(chs, subscribe)>>

CommandMsg(c) == [t |-> "Text", cmd |-> c]

\* InsertAll with the result of insert ignored: every requested channel is
\* pushed to the diff.
InsertAll_PushAlways(req, guard) ==
    [diff |-> req, guard |-> guard \cup Range(req)]

\* The loop over the requested channels under the channels lock:
\* guard.insert(ch) is true exactly when ch was not in the set.
RECURSIVE InsertAll(_, _)
InsertAll(req, guard) ==
    IF req = <<>> THEN [diff |-> <<>>, guard |-> guard]
    ELSE LET ch == Head(req)
             rest == InsertAll(Tail(req), guard \cup { ch })
         IN  IF ch \notin guard
             THEN [diff |-> <<ch>> \o rest.diff, guard |-> rest.guard]
             ELSE rest

\* First half of subscribe_or_unsubscribe: the diff, under the channels lock.
channels_diff(t, req, subscribe) ==
    /\ status = "running" /\ pc # "unbuilt"
    /\ sub[t].pc = "idle"
    /\ LET r == InsertAll(req, channels)
       IN  /\ channels' = r.guard
           /\ last_call' = [op |-> IF subscribe THEN "subscribe" ELSE "unsubscribe",
                            req |-> req, before |-> channels, diff |-> r.diff]
           /\ IF r.diff = <<>>
              THEN UNCHANGED sub
              ELSE sub' = [sub EXCEPT ![t] = [pc |-> "write", diff |-> r.diff,
                                              subscribe |-> subscribe]]
    /\ UNCHANGED <<rc, cfg, pc, status, exit_reason, connects, timeout, sock, wire, out,
                   inbox, should_stop, num_unanswered_ping, num_read_timeout, now,
                   start_timstamp, last_ping_timestamp, duration, last_iter,
                   pings_since_pong, close_pc, closes>>

subscribe_or_unsubscribe(t, req, subscribe) ==
    channels_diff(t, req, subscribe) /\ UNCHANGED call

\* send_commands with the frames handed to the engine task, which writes them.
send_commands_ByEngine(t, k) ==
    /\ status = "running"
    /\ sub[t].pc = "write"
    /\ LET commands == channels_to_commands(cfg.exchange, sub[t].diff, sub[t].subscribe)
           frames == [i \in 1..k |-> Written("engine", CommandMsg(commands[i]))]
       IN  /\ k \in 0..Len(commands)
           /\ ~WriteOk(sock) => k = 0
           /\ Len(wire) + k <= MaxWire
           /\ wire' = wire \o frames
           /\ IF k < Len(commands)
              THEN /\ status' = "exited"
                   /\ exit_reason' = "failed to send commands"
                   /\ UNCHANGED sub
              ELSE /\ sub' = [sub EXCEPT ![t] = SubIdle]
                   /\ UNCHANGED <<status, exit_reason>>
    /\ UNCHANGED <<call, rc, last_call, cfg, pc, connects, timeout, sock, channels, out, inbox, should_stop,
                   num_unanswered_ping, num_read_timeout, now, start_timstamp,
                   last_ping_timestamp, duration, last_iter, pings_since_pong,
                   close_pc, closes>>

\* Second half: the commands, under the socket lock.  k commands are written
\* before a write fails; a failed write exits the process.
send_commands(t, k) ==
    /\ status = "running"
    /\ sub[t].pc = "write"
    /\ LET commands == channels_to_commands(cfg.exchange, sub[t].diff, sub[t].subscribe)
           frames == [i \in 1..k |-> Written(t, CommandMsg(commands[i]))]
       IN  /\ k \in 0..Len(commands)
           /\ ~WriteOk(sock) => k = 0
           /\ Len(wire) + k <= MaxWire
           /\ wire' = wire \o frames
           /\ IF k < Len(commands)
              THEN /\ status' = "exited"
                   /\ exit_reason' = "failed to send commands"
                   /\ UNCHANGED sub
              ELSE /\ sub' = [sub EXCEPT ![t] = SubIdle]
                   /\ UNCHANGED <<status, exit_reason>>
    /\ UNCHANGED <<call, rc, last_call, cfg, pc, connects, timeout, sock, channels, out, inbox, should_stop,
                   num_unanswered_ping, num_read_timeout, now, start_timstamp,
                   last_ping_timestamp, duration, last_iter, pings_since_pong,
                   close_pc, closes>>

subscribe(t, req) == subscribe_or_unsubscribe(t, req, TRUE)
unsubscribe(t, req) == subscribe_or_unsubscribe(t, req, FALSE)

SubConfigs ==
    { c \in Configs : /\ c.exchange \in { OKEX_EXCHANGE_NAME, BITSTAMP_EXCHANGE_NAME }
                      /\ c.client_ping_interval_and_msg = Some(<<3, <<"p","i","n","g">> >>) }

InitSub == InitBuilt(SubConfigs)

NextSub ==
    \/ \E t \in Tasks, req \in Requests : subscribe(t, req)
    \/ \E t \in Tasks, req \in Requests : unsubscribe(t, req)
    \/ \E t \in Tasks, k \in 0..MaxReq : send_commands(t, k)

SpecSub == InitSub /\ [][NextSub]_vars

\* ---------------------------------------------------------------- properties of subscribe
IsCommand(w) == w.frame.t = "Text" /\ "cmd" \in DOMAIN w.frame
IsSubscribeFor(w, ch) ==
    /\ IsCommand(w)
    /\ w.frame.cmd.op \in { "subscribe", "bts:subscribe" }
    /\ ch \in Range(w.frame.cmd.args)
IsUnsubscribeFor(w, ch) ==
    /\ IsCommand(w)
    /\ w.frame.cmd.op \in { "unsubscribe", "bts:unsubscribe" }
    /\ ch \in Range(w.frame.cmd.args)

\* C1: a subscribe call whose channels are all in the subscribed set already
\* has an empty diff, hence writes nothing, and the wire never carries
\* two subscribe commands for the same channel.
C1_SubscribeIdempotent ==
    /\ (last_call.op = "subscribe" /\ Range(last_call.req) \subseteq last_call.before)
          => /\ last_call.diff = <<>>
             /\ channels = last_call.before
    /\ \A t \in Tasks : sub[t].pc = "write" => sub[t].diff # <<>>
    /\ \A ch \in Channels :
          Cardinality({ i \in DOMAIN wire : IsSubscribeFor(wire[i], ch) }) <= 1

\* A repeated subscribe: the last call asked for channels that were all
\* subscribed, and the command of one of them is on the wire.
C1_Witness ==
    /\ last_call.op = "subscribe"
    /\ last_call.req # <<>>
    /\ Range(last_call.req) \subseteq last_call.before
    /\ \E ch \in Range(last_call.req), i \in DOMAIN wire : IsSubscribeFor(wire[i], ch)

\* C2: unsubscribe sends commands for exactly the requested channels that
\* are subscribed and removes them from the set.
C2_UnsubscribeMirror ==
    last_call.op = "unsubscribe"
        => /\ Range(last_call.diff) = Range(last_call.req) \cap last_call.before
           /\ channels = last_call.before \ Range(last_call.req)

\* ---------------------------------------------------------------- forwarding
\* Every payload-carrying frame, and one frame or error of each other kind.
FwdReads(s) ==
    { r \in ReadOutcomes(s) :
        \/ r.t \in { "Text", "Binary", "Pong" }
        \/ r.t = "Close" /\ r.code \in { "Normal", "Protocol" }
        \/ r.t = "Err" /\ r.e \in { "Interrupted", "ConnectionClosed" } }

InitFwd == InitBuilt(Configs)

NextFwd ==
    \/ run_start(None)
    \/ run_check
    \/ \E r \in FwdReads(sock) : run_iteration(r)

SpecFwd == InitFwd /\ [][NextFwd]_vars

\* ---------------------------------------------------------------- properties of forwarding
Count(seq, x) == Cardinality({ i \in DOMAIN seq : seq[i] = x })
IsNormal(txt) == on_misc_msg(txt) = "Normal"
IsMxcSpot == cfg.exchange = MXC_EXCHANGE_NAME /\ cfg.url = MXC_SPOT_WEBSOCKET_URL

\* What the engine is to put on the output channel for a Normal payload:
\* the payload, on MXC Spot the payload without its leading "42", and
\* nothing for an MXC Spot payload that lacks the prefix.
Expected(txt) ==
    IF ~IsMxcSpot THEN <<txt>>
    ELSE IF Len(txt) >= 2 /\ txt[1] = "4" /\ txt[2] = "2"
         THEN <<SubSeq(txt, 3, Len(txt))>>
         ELSE <<>>

RECURSIVE ExpectedOut(_)
ExpectedOut(seq) ==
    IF seq = <<>> THEN <<>>
    ELSE (IF IsNormal(Head(seq)) THEN Expected(Head(seq)) ELSE <<>>)
            \o ExpectedOut(Tail(seq))

\* C3 as stated: every payload is on the output channel as often as it was
\* read with classification Normal, and not at all otherwise.
C3_SentIffNormal ==
    \A x \in Texts \cup Range(out) :
        Count(out, x) = IF IsNormal(x) THEN Count(inbox, x) ELSE 0

\* C3 amended: for every text, the number of times it is on the output
\* channel is the number of Normal payloads read whose forwarded form it is;
\* payloads classified otherwise contribute nothing.
C3_SentIffNormalForwarded ==
    \A x \in Texts \cup Range(out) :
        Count(out, x) =
            Cardinality({ i \in DOMAIN inbox :
                            IsNormal(inbox[i]) /\ Expected(inbox[i]) = <<x>> })

\* A Normal payload and a payload of another class have been handled and
\* something has been forwarded.
C3_Witness ==
    /\ \E i \in DOMAIN inbox : IsNormal(inbox[i])
    /\ \E i \in DOMAIN inbox : ~IsNormal(inbox[i])
    /\ out # <<>>

\* C4 as stated: the output channel holds the Normal payloads in the order
\* they were read.
C4_ReceiveOrder == out = SelectSeq(inbox, IsNormal)

\* C4 amended: the output channel holds the forwarded forms of the Normal
\* payloads in the order they were read.
C4_ReceiveOrderForwarded == out = ExpectedOut(inbox)

\* Two different payloads were forwarded around one that was not.
C4_Witness ==
    /\ Len(out) >= 2 /\ out[1] # out[2]
    /\ Len(inbox) >= 3 /\ ~IsNormal(inbox[2])

\* ---------------------------------------------------------------- liveness supervision
\* Timeouts and interrupted reads, and the two messages that answer a ping.
LiveReads(s) ==
    { r \in ReadOutcomes(s) :
        \/ r.t = "Pong"
        \/ r.t = "Text" /\ r.txt = TextPong
        \/ r.t = "Err" /\ r.e \in { "WouldBlock", "Interrupted" } }

LiveConfigs == { c \in Configs : c.exchange = OKEX_EXCHANGE_NAME }

InitLive == InitBuilt(LiveConfigs)

NextLive ==
    \/ run_start(None)
    \/ run_check
    \/ Tick(MaxTime)
    \/ \E r \in LiveReads(sock) : run_iteration(r)

SpecLive == InitLive /\ [][NextLive]_vars

\* ---------------------------------------------------------------- properties of the supervision
ClientPingMode == IsSome(cfg.client_ping_interval_and_msg)
IsEnginePing(w) ==
    /\ w.by = "engine"
    /\ \/ w.frame.t = "Ping"
       \/ /\ ClientPingMode
          /\ w.frame = PingMessage(cfg.client_ping_interval_and_msg.v)
ExitedBy(why) == status = "exited" /\ exit_reason = why

\* C5: in client-ping mode the engine exits once more than 5 pings have gone
\* unanswered: with 6 pings unanswered the next pass through the loop exits,
\* so a seventh unanswered ping is never sent by a running engine.
C5_UnansweredPingsExit ==
    (ClientPingMode /\ pings_since_pong > 6) => status = "exited"

\* C6 as stated: in server-ping mode no ping is sent and the engine has taken
\* the read-timeout exit exactly when 5 consecutive read timeouts have occurred.
C6_ExitAtFiveTimeouts ==
    ~ClientPingMode =>
        /\ \A i \in DOMAIN wire : ~IsEnginePing(wire[i])
        /\ ExitedBy("num_read_timeout") <=> num_read_timeout >= 5

\* C6 amended: in server-ping mode no ping is sent, the engine has taken the
\* read-timeout exit exactly when more than 5 consecutive read timeouts have
\* occurred (the 6th is fatal), and a successfully read message resets the count.
C6_ExitAfterFiveTimeouts ==
    ~ClientPingMode =>
        /\ \A i \in DOMAIN wire : ~IsEnginePing(wire[i])
        /\ ExitedBy("num_read_timeout") <=> num_read_timeout > 5
        /\ last_iter.read = "Pong" => num_read_timeout = 0

\* The read-timeout exit was taken in server-ping mode.
C6_Witness == ~ClientPingMode /\ ExitedBy("num_read_timeout")

\* ---------------------------------------------------------------- the duration bound
DurReads(s) ==
    { r \in ReadOutcomes(s) :
        \/ r.t = "Pong"
        \/ r.t = "Text" /\ r.txt \in { TextB, TextMisc, TextPong }
        \/ r.t = "Close" /\ r.code = "Normal"
        \/ r.t = "Err" /\ r.e \in { "WouldBlock", "Interrupted", "ProtocolOther" } }

DurConfigs ==
    { c \in Configs : /\ c.exchange = OKEX_EXCHANGE_NAME
                      /\ c.client_ping_interval_and_msg # Some(<<2, <<>> >>) }

InitDur == InitBuilt(DurConfigs)

NextDur ==
    \/ \E d \in Durations : run_start(d)
    \/ run_check
    \/ Tick(MaxElapsed)
    \/ \E r \in DurReads(sock) : run_iteration(r)

SpecDur == InitDur /\ [][NextDur]_vars

\* ---------------------------------------------------------------- properties of the duration bound
\* C7: run(Some(d)) leaves the loop on the duration bound only in an iteration
\* that handled a Normal message and with more than d seconds elapsed.
C7_DurationBound ==
    last_iter.left = "duration" =>
        /\ pc = "returned"
        /\ IsSome(duration)
        /\ now - start_timstamp > duration.v
        /\ last_iter.read = "Normal"

\* run(Some(d)) has returned on the duration bound.
C7_Witness == pc = "returned" /\ last_iter.left = "duration"

\* ---------------------------------------------------------------- close() against run()
\* A message, a timeout, and what the peer can answer to a closing handshake.
CloseReads(s) ==
    { r \in ReadOutcomes(s) :
        \/ r.t = "Text" /\ r.txt = TextB
        \/ r.t = "Close" /\ r.code \in { "NoFrame", "Normal", "Protocol" }
        \/ r.t = "Err" /\ r.e \in { "WouldBlock", "ResetWithoutClosingHandshake",
                                    "ConnectionClosed" } }

CloseConfigs == { c \in LiveConfigs : ~NeitherSet(c) }

InitClose == InitBuilt(CloseConfigs)

NextClose ==
    \/ run_start(None)
    \/ run_check
    \/ \E r \in CloseReads(sock) : run_iteration(r)
    \/ close_store
    \/ \E ok \in BOOLEAN : close_socket(ok)
    \/ \E ch \in Channels : subscribe("t1", <<ch>>)
    \/ \E k \in 0..1 : send_commands("t1", k)

SpecClose == InitClose /\ [][NextClose]_vars

\* The exits and panics of run().
RunFatal ==
    { "reconnect", "ConnectionClosed", "AlreadyClosed", "io error",
      "ResetWithoutClosingHandshake", "read error", "unknown binary format",
      "close frame", "num_unanswered_ping", "num_read_timeout" }

\* C8: close() from another task never makes run() exit the process or
\* panic: run() does not die on a socket that close() has closed.
C8_CloseNeverFatal ==
    (status # "running" /\ exit_reason \in RunFatal)
        => sock \notin { "ClosedByUs", "CloseAcknowledged" }

\* C9: a close() on a client that close() has already closed changes neither
\* should_stop nor the socket nor the channel set, and the process goes on.
C9_CloseIdempotent ==
    [][ (closes >= 1 /\ close_pc' # close_pc)
            => /\ should_stop /\ should_stop'
               /\ sock # "Active" /\ sock' = sock
               /\ channels' = channels
               /\ status' = "running" ]_vars

\* A second close() has completed on a client with subscribed channels.
C9_Witness == closes = 2 /\ channels # {} /\ status = "running"

\* ---------------------------------------------------------------- construction
NewReads(s) ==
    { r \in ReadOutcomes(s) :
        \/ r.t = "Text" /\ r.txt \in { TextB, TextMisc }
        \/ r.t = "Err" /\ r.e = "WouldBlock" }

Next ==
    \/ new
    \/ \E d \in Durations : run_start(d)
    \/ run_check
    \/ Tick(MaxElapsed)
    \/ \E r \in NewReads(sock) : run_iteration(r)

Spec == Init /\ [][Next]_vars

\* C10 as stated: a client exists only with exactly one of the two settings,
\* and construction with both panics before any connection is attempted.
C10_ExactlyOne ==
    /\ pc # "unbuilt" => ~BothSet(cfg) /\ ~NeitherSet(cfg)
    /\ BothSet(cfg) => connects = 0

\* C10 amended: a client exists only with at most one of the two settings:
\* construction with both panics before any connection is attempted, and
\* construction with neither yields a client connected without a read timeout.
C10_AtMostOne ==
    /\ pc # "unbuilt" => ~BothSet(cfg)
    /\ BothSet(cfg) => connects = 0 /\ sock = "NoSocket"
    /\ (BothSet(cfg) /\ status # "running") => status = "panicked"
    /\ (NeitherSet(cfg) /\ pc # "unbuilt") => connects = 1 /\ timeout = None

\* A client built with neither setting is running and has forwarded a message.
C10_Witness == NeitherSet(cfg) /\ pc = "loop" /\ status = "running" /\ out # <<>>

\* ---------------------------------------------------------------- who writes to the socket
\* The frames the engine answers with a write of its own.
WriterReads(s) ==
    { r \in ReadOutcomes(s) :
        \/ r.t = "Ping" /\ r.data = <<"x">>
        \/ r.t = "Text" /\ r.txt = TextWs }

WriterConfigs == { c \in CloseConfigs : IsSome(c.server_ping_interval) }

InitWriters == InitBuilt(WriterConfigs)

NextWriters ==
    \/ run_start(None)
    \/ run_check
    \/ \E r \in WriterReads(sock) : run_iteration(r)
    \/ close_store
    \/ \E ok \in BOOLEAN : close_socket(ok)
    \/ subscribe("t1", <<ChA>>)
    \/ unsubscribe("t1", <<ChB>>)
    \/ \E k \in 0..1 : send_commands("t1", k)

SpecWriters == InitWriters /\ [][NextWriters]_vars

\* C11 as stated: every frame on the wire was written by the engine task.
C11_EngineWritesAll == \A i \in DOMAIN wire : wire[i].by = "engine"

\* C11 amended: a frame is written by the task whose call produces it: the
\* command frames by the task that calls subscribe or unsubscribe, the Close
\* frame by the task that calls close(), and by the engine task only the
\* frames run() itself sends.
C11_WritesByCaller ==
    \A i \in DOMAIN wire :
        /\ IsCommand(wire[i]) <=> wire[i].by \in Tasks
        /\ wire[i].frame.t = "Close" <=> wire[i].by = "closer"
        /\ wire[i].by \in Tasks \cup { "closer", "engine" }

\* The engine, a subscribing task and a closing task have each written a frame.
C11_Witness ==
    /\ \E i \in DOMAIN wire : wire[i].by = "engine"
    /\ \E i \in DOMAIN wire : wire[i].by \in Tasks
    /\ \E i \in DOMAIN wire : wire[i].by = "closer"

\* ---------------------------------------------------------------- Close frames
\* Every Close frame, a message and a timeout.
CloseFrameReads(s) ==
    { r \in ReadOutcomes(s) :
        \/ r.t = "Close"
        \/ r.t = "Text" /\ r.txt = TextB
        \/ r.t = "Err" /\ r.e = "WouldBlock" }

InitCloseFrame == InitBuilt(DurConfigs)

NextCloseFrame ==
    \/ \E d \in Durations : run_start(d)
    \/ run_check
    \/ Tick(MaxElapsed)
    \/ \E r \in CloseFrameReads(sock) : run_iteration(r)

SpecCloseFrame == InitCloseFrame /\ [][NextCloseFrame]_vars

CloseTolerated == { "Normal", "Away", "NoFrame" }

\* C12: the iteration that read a Close frame has exited the process exactly
\* when the code is neither Normal nor Away; after a Close with Normal, Away
\* or no frame the engine is running and back at the top of the loop.
C12_CloseFrameExit ==
    last_iter.read = "Close" =>
        /\ ExitedBy("close frame") <=> last_iter.code \notin CloseTolerated
        /\ last_iter.code \in CloseTolerated =>
              status = "running" /\ pc = "loop" /\ last_iter.left = "no"

\* A Close with code Away was read past the duration of run(Some(d)), and the
\* engine goes on.
C12_Witness ==
    /\ last_iter.read = "Close" /\ last_iter.code = "Away"
    /\ IsSome(duration) /\ now - start_timstamp > duration.v
    /\ status = "running"

\* ---------------------------------------------------------------- _reconnect
MaxConnects == 2

\* The orders in which a HashSet can hand out its elements.
IterOrders(S) == { f \in [1..Cardinality(S) -> S] : Range(f) = S }

\* The frames of the commands whose write did not fail, in command order.
RECURSIVE WrittenCommands(_, _, _)
WrittenCommands(commands, failed, i) ==
    IF i > Len(commands) THEN <<>>
    ELSE (IF i \in failed THEN <<>>
          ELSE <<Written("reconnect", CommandMsg(commands[i]))>>)
            \o WrittenCommands(commands, failed, i + 1)

\* _reconnect, first block: the socket is replaced under the socket lock.
reconnect_connect ==
    /\ status = "running" /\ pc # "unbuilt"
    /\ rc.pc = "idle"
    /\ connects < MaxConnects
    /\ IF NewTimeout(cfg).panic
       THEN /\ status' = "panicked"
            /\ exit_reason' = "reconnect: both ping settings"
            /\ UNCHANGED <<connects, timeout, sock, rc>>
       ELSE /\ timeout' = NewTimeout(cfg).timeout
            /\ connects' = connects + 1
            /\ sock' = "Active"
            /\ rc' = [rc EXCEPT !.pc = "connected"]
            /\ UNCHANGED <<status, exit_reason>>
    /\ UNCHANGED <<call, cfg, pc, channels, wire, out, inbox, should_stop,
                   num_unanswered_ping, num_read_timeout, now, start_timstamp,
                   last_ping_timestamp, duration, last_iter, pings_since_pong,
                   close_pc, closes, sub, last_call>>

\* _reconnect, second block: the channel set is copied under the channels lock.
reconnect_snapshot ==
    /\ status = "running"
    /\ rc.pc = "connected"
    /\ \E snap \in IterOrders(channels) :
          rc' = [pc |-> IF snap = <<>> THEN "idle" ELSE "replay",
                 snap |-> snap, before |-> channels, commands |-> <<>>,
                 failed |-> {}, conn |-> connects,
                 n |-> IF snap = <<>> THEN rc.n + 1 ELSE rc.n]
    /\ UNCHANGED <<call, cfg, pc, status, exit_reason, connects, timeout, sock, channels,
                   wire, out, inbox, should_stop, num_unanswered_ping,
                   num_read_timeout, now, start_timstamp, last_ping_timestamp,
                   duration, last_iter, pings_since_pong, close_pc, closes, sub,
                   last_call>>

\* The replay sending unsubscribe commands.
reconnect_replay_Unsubscribe(failed) ==
    /\ status = "running"
    /\ rc.pc = "replay"
    /\ LET commands == channels_to_commands(cfg.exchange, rc.snap, FALSE) IN
       /\ failed \subseteq 1..Len(commands)
       /\ ~WriteOk(sock) => failed = 1..Len(commands)
       /\ wire' = wire \o WrittenCommands(commands, failed, 1)
       /\ Len(wire') <= MaxWire
       /\ rc' = [rc EXCEPT !.pc = "idle", !.commands = commands,
                           !.failed = failed, !.n = @ + 1]
    /\ UNCHANGED <<call, cfg, pc, status, exit_reason, connects, timeout, sock, channels,
                   out, inbox, should_stop, num_unanswered_ping, num_read_timeout,
                   now, start_timstamp, last_ping_timestamp, duration, last_iter,
                   pings_since_pong, close_pc, closes, sub, last_call>>

\* _reconnect, third block: every subscribe command is written under the socket
\* lock; the writes in failed return an error, which is logged and nothing else.
reconnect_replay(failed) ==
    /\ status = "running"
    /\ rc.pc = "replay"
    /\ LET commands == channels_to_commands(cfg.exchange, rc.snap, TRUE) IN
       /\ failed \subseteq 1..Len(commands)
       /\ ~WriteOk(sock) => failed = 1..Len(commands)
       /\ wire' = wire \o WrittenCommands(commands, failed, 1)
       /\ Len(wire') <= MaxWire
       /\ rc' = [rc EXCEPT !.pc = "idle", !.commands = commands,
                           !.failed = failed, !.n = @ + 1]
    /\ UNCHANGED <<call, cfg, pc, status, exit_reason, connects, timeout, sock, channels,
                   out, inbox, should_stop, num_unanswered_ping, num_read_timeout,
                   now, start_timstamp, last_ping_timestamp, duration, last_iter,
                   pings_since_pong, close_pc, closes, sub, last_call>>

ReconnectChannels == { ChA, ChB }

InitReconnect == InitBuilt(SubConfigs)

NextReconnect ==
    \/ \E ch \in ReconnectChannels : subscribe("t1", <<ch>>)
    \/ \E k \in 0..1 : send_commands("t1", k)
    \/ reconnect_connect
    \/ reconnect_snapshot
    \/ \E failed \in SUBSET (1..Cardinality(ReconnectChannels)) : reconnect_replay(failed)

SpecReconnect == InitReconnect /\ [][NextReconnect]_vars

\* ---------------------------------------------------------------- properties of _reconnect
ReconnectDone == rc.n >= 1 /\ rc.pc = "idle"
ReplayedFrames == SelectSeq(wire, LAMBDA w : w.by = "reconnect" /\ w.conn = rc.conn)

\* C13: a failed write of a subscription command exits the process, and no
\* later command of the batch is written: in subscribe and unsubscribe, and in
\* the replay of _reconnect.
C13_FailedWriteFatal ==
    /\ ExitedBy("failed to send commands") => \E t \in Tasks : sub[t].pc = "write"
    /\ (ReconnectDone /\ rc.failed # {}) =>
          /\ status = "exited"
          /\ \A i \in 1..Len(rc.commands) :
                (\E j \in rc.failed : j < i) =>
                    \A k \in DOMAIN wire : wire[k].by = "reconnect" =>
                        wire[k].frame # CommandMsg(rc.commands[i])

\* C14: a completed _reconnect() has made a new connection, has passed to
\* write_message exactly the commands channels_to_commands(S, true) for the
\* channel set S it found, each command whose write succeeded is on the new
\* socket in command order, nothing was sent for an empty S, and no step of
\* _reconnect() changes the channel set.
C14_ReconnectReplays ==
    /\ [](ReconnectDone =>
            /\ rc.conn = connects /\ connects >= 2
            /\ Range(rc.snap) = rc.before /\ Len(rc.snap) = Cardinality(rc.before)
            /\ rc.commands = IF rc.snap = <<>> THEN <<>>
                             ELSE channels_to_commands(cfg.exchange, rc.snap, TRUE)
            /\ ReplayedFrames = WrittenCommands(rc.commands, rc.failed, 1)
            /\ rc.failed = {} =>
                  [i \in 1..Len(ReplayedFrames) |-> ReplayedFrames[i].frame]
                      = [i \in 1..Len(rc.commands) |-> CommandMsg(rc.commands[i])]
            /\ rc.before = {} => ReplayedFrames = <<>>)
    /\ [][rc' # rc => channels' = channels]_vars

\* A _reconnect() has replayed two channels on the new socket.
C14_Witness ==
    /\ ReconnectDone /\ Cardinality(rc.before) = 2 /\ rc.failed = {}
    /\ Len(ReplayedFrames) >= 1

\* ---------------------------------------------------------------- okex: channels_to_commands
WS_FRAME_SIZE == 65536
MaxArgs == 3

\* No client: the functions below are called without one.
InitNoClient ==
    /\ cfg = [exchange |-> OKEX_EXCHANGE_NAME, url |-> OKEX_WEBSOCKET_URL,
              client_ping_interval_and_msg |-> Some(<<3, <<"p","i","n","g">> >>),
              server_ping_interval |-> None]
    /\ pc = "unbuilt"
    /\ connects = 0
    /\ timeout = None
    /\ sock = "NoSocket"
    /\ InitRest

\* The length in bytes of the string topics_to_command formats:
\* {"op":"<op>","args":["<ch>","<ch>"]}
RECURSIVE SumLen(_)
SumLen(chunk) == IF chunk = <<>> THEN 0 ELSE Len(Head(chunk)) + 2 + SumLen(Tail(chunk))
JsonArrayLen(chunk) == 2 + SumLen(chunk) + (IF Len(chunk) > 1 THEN Len(chunk) - 1 ELSE 0)
CommandLen(cmd) ==
    7 + (IF cmd.op = "subscribe" THEN 9 ELSE 11) + 9 + JsonArrayLen(cmd.args) + 1

\* Batches the channels into commands of at most max_bytes, in order: a channel
\* joins the current chunk while the command stays within the frame, else the
\* chunk is closed and the channel starts the next one.
RECURSIVE FrameChunks(_, _, _, _)
FrameChunks(rest, chunk, is_subscribe, max_bytes) ==
    IF rest = <<>>
    THEN IF chunk = <<>> THEN <<>> ELSE <<topics_to_command(chunk, is_subscribe)>>
    ELSE LET next == Append(chunk, Head(rest)) IN
         IF CommandLen(topics_to_command(next, is_subscribe)) <= max_bytes
         THEN FrameChunks(Tail(rest), next, is_subscribe, max_bytes)
         ELSE IF chunk = <<>>
         THEN <<topics_to_command(next, is_subscribe)>>
                 \o FrameChunks(Tail(rest), <<>>, is_subscribe, max_bytes)
         ELSE <<topics_to_command(chunk, is_subscribe)>>
                 \o FrameChunks(rest, <<>>, is_subscribe, max_bytes)

ensure_frame_size(chs, is_subscribe, max_bytes) == FrameChunks(chs, <<>>, is_subscribe, max_bytes)

\* Channels of 1, 2 and 14 bytes, and the frame sizes they are batched for: the
\* size OKEx is given and two small ones, for which a batch has to be split.
ChShort == <<"a">>
ChMid == <<"b","b">>
ChLong == <<"l","l","l","l","l","l","l","l","l","l","l","l","l","l">>
CommandChannels == { ChShort, ChMid, ChLong }
FrameSizes == { WS_FRAME_SIZE, 40, 50 }
ChannelLists == UNION { [1..n -> CommandChannels] : n \in 1..MaxArgs }

\* okex::channels_to_commands, with the frame size it hands to ensure_frame_size.
okex_channels_to_commands(chs, is_subscribe, max_bytes) ==
    /\ call' = [fn |-> "okex::channels_to_commands", channels |-> chs,
                subscribe |-> is_subscribe, max_bytes |-> max_bytes,
                commands |-> ensure_frame_size(chs, is_subscribe, max_bytes)]
    /\ UNCHANGED client_vars

NextOkexCommands ==
    \E chs \in ChannelLists, is_subscribe \in BOOLEAN, max_bytes \in FrameSizes :
        okex_channels_to_commands(chs, is_subscribe, max_bytes)

SpecOkexCommands == InitNoClient /\ [][NextOkexCommands]_vars

\* ---------------------------------------------------------------- properties of okex commands
RECURSIVE ConcatArgs(_)
ConcatArgs(commands) ==
    IF commands = <<>> THEN <<>> ELSE Head(commands).args \o ConcatArgs(Tail(commands))

IsOkexCall == call.fn = "okex::channels_to_commands"
OkexEnvelope ==
    /\ \A i \in DOMAIN call.commands :
          call.commands[i].op = IF call.subscribe THEN "subscribe" ELSE "unsubscribe"
    /\ ConcatArgs(call.commands) = call.channels
FitsOneFrame ==
    CommandLen(topics_to_command(call.channels, call.subscribe)) <= call.max_bytes
EachFitsAlone ==
    \A i \in DOMAIN call.channels :
        CommandLen(topics_to_command(<<call.channels[i]>>, call.subscribe)) <= call.max_bytes

GATE_EXCHANGE_NAME == "gate"
BYBIT_EXCHANGE_NAME == "bybit"
INVERSE_FUTURE_WEBSOCKET_URL == "wss://fx-ws.gateio.ws/v4/ws/delivery/btc"
LINEAR_FUTURE_WEBSOCKET_URL == "wss://fx-ws.gateio.ws/v4/ws/delivery/usdt"
BYBIT_INVERSE_SWAP_WEBSOCKET_URL == "wss://stream.bybit.com/realtime"

CapabilityClients ==
    { "BitstampWSClient", "GateInverseFutureWSClient", "GateLinearFutureWSClient",
      "BybitInverseSwapWSClient" }

CapabilityMethods ==
    { "subscribe_trade", "subscribe_orderbook", "subscribe_orderbook_topk",
      "subscribe_l3_orderbook", "subscribe_ticker", "subscribe_bbo",
      "subscribe_candlestick" }

\* The configuration each constructor hands to WSClientInternal::new.
ClientConfig(client) ==
    [exchange |-> IF client = "BitstampWSClient" THEN BITSTAMP_EXCHANGE_NAME
                  ELSE IF client = "BybitInverseSwapWSClient" THEN BYBIT_EXCHANGE_NAME
                  ELSE GATE_EXCHANGE_NAME,
     url |-> IF client = "BitstampWSClient" THEN BITSTAMP_WEBSOCKET_URL
             ELSE IF client = "BybitInverseSwapWSClient" THEN BYBIT_INVERSE_SWAP_WEBSOCKET_URL
             ELSE IF client = "GateInverseFutureWSClient" THEN INVERSE_FUTURE_WEBSOCKET_URL
             ELSE LINEAR_FUTURE_WEBSOCKET_URL,
     client_ping_interval_and_msg |-> Some(<<3, <<"p","i","n","g">> >>),
     server_ping_interval |-> None]

ClientOf(c) == CHOOSE client \in CapabilityClients : ClientConfig(client) = c

\* Bitstamp with a ticker channel in place of the panic.
BitstampChannel_TickerSupported(method) ==
    IF method = "subscribe_trade" THEN Some("live_trades")
    ELSE IF method = "subscribe_orderbook" THEN Some("diff_order_book")
    ELSE IF method = "subscribe_orderbook_topk" THEN Some("order_book")
    ELSE IF method = "subscribe_l3_orderbook" THEN Some("live_orders")
    ELSE IF method = "subscribe_ticker" THEN Some("live_ticker")
    ELSE None

\* The channel a capability subscribes to, per client; None where its impl
\* is a panic.
BitstampChannel(method) ==
    IF method = "subscribe_trade" THEN Some("live_trades")
    ELSE IF method = "subscribe_orderbook" THEN Some("diff_order_book")
    ELSE IF method = "subscribe_orderbook_topk" THEN Some("order_book")
    ELSE IF method = "subscribe_l3_orderbook" THEN Some("live_orders")
    ELSE None

GateFutureChannel(method) ==
    IF method = "subscribe_trade" THEN Some("futures.trades")
    ELSE IF method = "subscribe_orderbook" THEN Some("futures.order_book")
    ELSE IF method = "subscribe_ticker" THEN Some("futures.tickers")
    ELSE IF method = "subscribe_candlestick" THEN Some("futures.candlesticks")
    ELSE None

BybitInverseSwapChannel(method) ==
    IF method = "subscribe_trade" THEN Some("trade")
    ELSE IF method \in { "subscribe_orderbook", "subscribe_orderbook_topk" }
    THEN Some("orderBookL2_25")
    ELSE IF method = "subscribe_ticker" THEN Some("instrument_info.100ms")
    ELSE IF method = "subscribe_candlestick" THEN Some("klineV2")
    ELSE None

CapabilityChannel(client, method) ==
    IF client = "BitstampWSClient" THEN BitstampChannel(method)
    ELSE IF client = "BybitInverseSwapWSClient" THEN BybitInverseSwapChannel(method)
    ELSE GateFutureChannel(method)

\* format!("{}_{}", channel, pair)
to_raw_channel(channel, pair) == <<channel, "_", pair>>

CapabilityPairs == { "btcusd" }

\* A capability method called by task t: a panic where the exchange does not
\* offer it, else a subscribe of the raw channels of the pairs.
capability(t, method, pairs) ==
    LET client == ClientOf(cfg)
        channel == CapabilityChannel(client, method)
    IN  /\ status = "running" /\ pc # "unbuilt"
        /\ sub[t].pc = "idle"
        /\ call' = [fn |-> method, client |-> client, pairs |-> pairs]
        /\ IF ~IsSome(channel)
           THEN /\ status' = "panicked"
                /\ exit_reason' = "unsupported capability"
                /\ UNCHANGED <<cfg, pc, connects, timeout, sock, channels, wire, out,
                               inbox, should_stop, num_unanswered_ping,
                               num_read_timeout, now, start_timstamp,
                               last_ping_timestamp, duration, last_iter,
                               pings_since_pong, close_pc, closes, sub, last_call, rc>>
           ELSE channels_diff(t, [i \in 1..Len(pairs) |-> to_raw_channel(channel.v, pairs[i])],
                              TRUE)

InitCapabilities ==
    InitBuilt({ ClientConfig(client) : client \in CapabilityClients })

NextCapabilities ==
    \/ \E method \in CapabilityMethods, pair \in CapabilityPairs :
          capability("t1", method, <<pair>>)
    \/ \E k \in 0..1 : send_commands("t1", k)

SpecCapabilities == InitCapabilities /\ [][NextCapabilities]_vars

\* ---------------------------------------------------------------- properties of capabilities
ClaimedUnsupported ==
    { <<"BitstampWSClient", "subscribe_ticker">>,
      <<"BitstampWSClient", "subscribe_bbo">>,
      <<"BitstampWSClient", "subscribe_candlestick">>,
      <<"GateInverseFutureWSClient", "subscribe_bbo">>,
      <<"GateInverseFutureWSClient", "subscribe_orderbook_topk">>,
      <<"GateLinearFutureWSClient", "subscribe_bbo">>,
      <<"GateLinearFutureWSClient", "subscribe_orderbook_topk">>,
      <<"BybitInverseSwapWSClient", "subscribe_bbo">> }

IsCapabilityCall(c) == c.fn \in CapabilityMethods

\* C16: a call of one of the listed capabilities panics, writes no frame and
\* leaves the channel set as it was.
C16_UnsupportedPanics ==
    [][ (call' # call /\ IsCapabilityCall(call')
            /\ <<call'.client, call'.fn>> \in ClaimedUnsupported)
          => /\ status' = "panicked"
             /\ wire' = wire
             /\ channels' = channels
             /\ sub' = sub ]_vars

\* An unsupported capability was called on a client that had subscribed to a
\* channel and sent the command.
C16_Witness ==
    /\ IsCapabilityCall(call) /\ <<call.client, call.fn>> \in ClaimedUnsupported
    /\ status = "panicked"
    /\ channels # {} /\ wire # <<>>

\* ---------------------------------------------------------------- bitmex: order-book ids
ID_BASE == 100000000
MaxTicks == 9

\* Rows of SYMBOL_INDEX_AND_TICK_SIZE_MAP: symbol -> (index, tick size), the
\* tick size as the number of 1/100 it is.  These are the rows whose ids fit
\* the integers of the checker.
SYMBOL_INDEX_AND_TICK_SIZE_MAP ==
    [ XBTZ14 |-> <<0, 1>>, XBTF15 |-> <<1, 1>>, XBTZ14_F15 |-> <<2, 1>>,
      BVOLG15 |-> <<18, 1>> ]
BitmexSymbols == DOMAIN SYMBOL_INDEX_AND_TICK_SIZE_MAP

\* Prices as whole numbers of ticks: the first few, a usual one, and the ones
\* around the largest an id of index 1 can stand for.
PriceTicks == (0..MaxTicks) \cup { 50000, ID_BASE - 1, ID_BASE, ID_BASE + 1 }

\* f64 as usize: truncation toward zero, saturating at 0 for a negative value.
AsUsize(x) == IF x < 0 THEN 0 ELSE x

\* price_to_id, for a price of the given number of ticks.  The f64 quotient
\* price / tick_size is that number or, when above, a value just above it, and
\* the cast then truncates the difference to the next lower integer.
price_to_id(symbol, ticks, above) ==
    LET index == SYMBOL_INDEX_AND_TICK_SIZE_MAP[symbol][1]
        diff == ID_BASE * index - ticks
    IN  AsUsize(IF above THEN diff - 1 ELSE diff)

\* id_to_price, the price as a number of ticks.
id_to_price(symbol, id) ==
    LET index == SYMBOL_INDEX_AND_TICK_SIZE_MAP[symbol][1]
    IN  ID_BASE * index - id

bitmex_round_trip(symbol, ticks, above) ==
    /\ call' = [fn |-> "bitmex::id_to_price(price_to_id)", symbol |-> symbol,
                ticks |-> ticks, above |-> above,
                id |-> price_to_id(symbol, ticks, above),
                back |-> id_to_price(symbol, price_to_id(symbol, ticks, above))]
    /\ UNCHANGED client_vars

NextBitmexId ==
    \E symbol \in BitmexSymbols, ticks \in PriceTicks, above \in BOOLEAN :
        bitmex_round_trip(symbol, ticks, above)

SpecBitmexId == InitNoClient /\ [][NextBitmexId]_vars

\* C17: for every symbol of the table and every price of a whole number of
\* ticks, id_to_price(symbol, price_to_id(symbol, price)) is the price to
\* within one tick.
C17_IdPriceRoundTrip ==
    call.fn = "bitmex::id_to_price(price_to_id)" =>
        /\ call.back - call.ticks <= 1
        /\ call.ticks - call.back <= 1

\* ---------------------------------------------------------------- crypto-msg-parser: results
\* What a call of a parser gives its caller: Ok(records), Err(error), or a
\* panic that unwinds into the caller (unwrap and expect on None or Err).
ParseOk(records) == [kind |-> "Ok", records |-> records]
ParseErr == [kind |-> "Err", records |-> <<>>]
ParsePanic == [kind |-> "panic", records |-> <<>>]

\* ---------------------------------------------------------------- coinbase_pro parser
COINBASE_EXCHANGE_NAME == "coinbase_pro"

\* A raw coinbase message, by what the parser's steps make of it:
\*   json    the text is a JSON object;
\*   type    its "type" member when that is a string;
\*   fields  the members the message's struct requires are there, well typed;
\*   pair    what normalize_pair gives for its product_id;
\*   time    its "time" member in milliseconds when it is RFC 3339;
\*   floats  its price and size strings all parse as f64.
CoinbaseTypes == { None, Some("snapshot"), Some("l2update"), Some("match") }
CoinbaseMsgs ==
    [ json : BOOLEAN, type : CoinbaseTypes, fields : BOOLEAN,
      pair : { None, Some("BTC/USD") }, time : { None, Some(3) }, floats : BOOLEAN ]
CallerTimestamps == { None, Some(1), Some(2) }

\* coinbase_pro::parse_trade.
coinbase_pro_parse_trade(msg) ==
    IF ~msg.json \/ ~IsSome(msg.type) \/ ~msg.fields THEN ParseErr
    ELSE IF ~IsSome(msg.time) THEN ParsePanic
    ELSE IF ~msg.floats THEN ParsePanic
    ELSE IF ~IsSome(msg.pair) THEN ParsePanic
    ELSE ParseOk(<< [exchange |-> COINBASE_EXCHANGE_NAME, pair |-> msg.pair.v,
                     msg_type |-> "Trade", timestamp |-> msg.time.v] >>)

\* coinbase_pro::parse_l2.
coinbase_pro_parse_l2(msg, timestamp) ==
    IF ~msg.json THEN ParseErr
    ELSE IF ~IsSome(msg.type) THEN ParsePanic
    ELSE IF msg.type.v = "snapshot"
    THEN IF ~msg.fields THEN ParseErr
         ELSE IF ~IsSome(msg.pair) THEN ParsePanic
         ELSE IF ~IsSome(timestamp) THEN ParsePanic
         ELSE IF ~msg.floats THEN ParsePanic
         ELSE ParseOk(<< [exchange |-> COINBASE_EXCHANGE_NAME, pair |-> msg.pair.v,
                          msg_type |-> "L2Event", timestamp |-> timestamp.v,
                          snapshot |-> TRUE] >>)
    ELSE IF ~msg.fields THEN ParseErr
         ELSE IF ~IsSome(msg.pair) THEN ParsePanic
         ELSE IF ~IsSome(msg.time) THEN ParsePanic
         ELSE IF ~msg.floats THEN ParsePanic
         ELSE ParseOk(<< [exchange |-> COINBASE_EXCHANGE_NAME, pair |-> msg.pair.v,
                          msg_type |-> "L2Event", timestamp |-> msg.time.v,
                          snapshot |-> FALSE] >>)

\* ---------------------------------------------------------------- bitmex parser
BITMEX_EXCHANGE_NAME == "bitmex"

\* A raw bitmex orderBookL2 message: json says that the text deserializes as
\* WebsocketMsg<RawOrder> (numbers that are no numbers fail there), data holds
\* its orders, pair is what normalize_pair gives for the first order's symbol.
\* An order's price is a number of ticks.
RawOrderSymbols == { "XBTF15", "UNLISTED" }
RawOrders ==
    [ symbol : RawOrderSymbols, id : { ID_BASE - 2 }, side : { "Sell", "Buy" },
      size : { None, Some(1) }, price : { None, Some(2) } ]
BitmexMsgs ==
    [ json : BOOLEAN, action : { "partial", "update" },
      data : { <<>> } \cup { <<o>> : o \in RawOrders },
      pair : { None, Some("BTC/USD") } ]

\* The closure parse_order of bitmex::parse_l2: None stands for the panic of
\* id_to_price on a symbol the table does not hold.
bitmex_parse_order(raw_order) ==
    IF IsSome(raw_order.price)
    THEN Some([price |-> raw_order.price.v,
               quantity |-> IF IsSome(raw_order.size) THEN raw_order.size.v ELSE 0])
    ELSE IF raw_order.symbol \notin BitmexSymbols THEN None
    ELSE Some([price |-> id_to_price(raw_order.symbol, raw_order.id),
               quantity |-> IF IsSome(raw_order.size) THEN raw_order.size.v ELSE 0])

\* The orders of one side, in the order of the message.
RECURSIVE BitmexSide(_, _)
BitmexSide(data, side) ==
    IF data = <<>> THEN <<>>
    ELSE IF Head(data).side = side
         THEN <<bitmex_parse_order(Head(data))>> \o BitmexSide(Tail(data), side)
         ELSE BitmexSide(Tail(data), side)

\* bitmex::parse_l2, called with a market type other than Unknown.
bitmex_parse_l2(msg, timestamp) ==
    IF ~msg.json THEN ParseErr
    ELSE IF msg.data = <<>> THEN ParseOk(<<>>)
    ELSE IF ~IsSome(msg.pair) THEN ParsePanic
    ELSE LET asks == BitmexSide(msg.data, "Sell")
             bids == BitmexSide(msg.data, "Buy")
         IN  IF \E i \in DOMAIN asks : ~IsSome(asks[i]) THEN ParsePanic
             ELSE IF \E i \in DOMAIN bids : ~IsSome(bids[i]) THEN ParsePanic
             ELSE ParseOk(<< [exchange |-> BITMEX_EXCHANGE_NAME, pair |-> msg.pair.v,
                              msg_type |-> "L2Event", timestamp |-> timestamp,
                              snapshot |-> (msg.action = "partial"),
                              asks |-> [i \in DOMAIN asks |-> asks[i].v],
                              bids |-> [i \in DOMAIN bids |-> bids[i].v]] >>)

\* ---------------------------------------------------------------- parser calls
parse_trade_coinbase_pro(msg) ==
    /\ call' = [fn |-> "coinbase_pro::parse_trade", msg |-> msg, timestamp |-> None,
                result |-> coinbase_pro_parse_trade(msg)]
    /\ UNCHANGED client_vars

parse_l2_coinbase_pro(msg, timestamp) ==
    /\ call' = [fn |-> "coinbase_pro::parse_l2", msg |-> msg, timestamp |-> timestamp,
                result |-> coinbase_pro_parse_l2(msg, timestamp)]
    /\ UNCHANGED client_vars

parse_l2_bitmex(msg, timestamp) ==
    /\ call' = [fn |-> "bitmex::parse_l2", msg |-> msg, timestamp |-> Some(timestamp),
                result |-> bitmex_parse_l2(msg, timestamp)]
    /\ UNCHANGED client_vars

NextParsers ==
    \/ \E msg \in CoinbaseMsgs : parse_trade_coinbase_pro(msg)
    \/ \E msg \in CoinbaseMsgs, timestamp \in CallerTimestamps :
           parse_l2_coinbase_pro(msg, timestamp)
    \/ \E msg \in BitmexMsgs, timestamp \in { 1, 2 } : parse_l2_bitmex(msg, timestamp)

SpecParsers == InitNoClient /\ [][NextParsers]_vars

IsParserCall(c) ==
    c.fn \in { "coinbase_pro::parse_trade", "coinbase_pro::parse_l2", "bitmex::parse_l2" }

\* A coinbase message that is what the exchange sends: every step of the
\* parser but the timestamp succeeds on it.
CoinbaseWellFormed(msg) ==
    msg.json /\ IsSome(msg.type) /\ msg.fields /\ IsSome(msg.pair) /\ IsSome(msg.time)
    /\ msg.floats

\* C18: coinbase parse_l2 on a message of type snapshot returns an error value
\* when the caller supplies no timestamp, and with a caller-supplied timestamp
\* returns exactly one OrderBookMsg with snapshot = true and that timestamp.
C18_SnapshotTimestamp ==
    ( /\ call.fn = "coinbase_pro::parse_l2"
      /\ CoinbaseWellFormed(call.msg)
      /\ call.msg.type.v = "snapshot" ) =>
        IF IsSome(call.timestamp)
        THEN /\ call.result.kind = "Ok"
             /\ Len(call.result.records) = 1
             /\ call.result.records[1].snapshot
             /\ call.result.records[1].timestamp = call.timestamp.v
        ELSE call.result.kind = "Err"

\* The inputs the parsers are to answer with an error value: a required field
\* is missing, a float or a timestamp does not parse, the symbol normalizes to
\* no pair, or a bitmex symbol whose price comes from its id is not in the
\* index table.
RejectedInput(c) ==
    IF c.fn = "bitmex::parse_l2"
    THEN \/ ~c.msg.json
         \/ /\ c.msg.data # <<>>
            /\ \/ ~IsSome(c.msg.pair)
               \/ \E i \in DOMAIN c.msg.data :
                      /\ ~IsSome(c.msg.data[i].price)
                      /\ c.msg.data[i].symbol \notin BitmexSymbols
    ELSE \/ ~c.msg.fields
         \/ ~c.msg.floats
         \/ ~IsSome(c.msg.pair)
         \/ /\ ~IsSome(c.msg.time)
            /\ ~(c.fn = "coinbase_pro::parse_l2" /\ c.msg.type = Some("snapshot"))

\* C19: parse_trade and parse_l2 return a vector of records or an error value
\* for any raw text, never aborting the caller, and the rejected inputs yield
\* an error value and no record.
C19_ParsersTotal ==
    IsParserCall(call) =>
        /\ call.result.kind \in { "Ok", "Err" }
        /\ RejectedInput(call) => call.result = ParseErr

\* ---------------------------------------------------------------- f64 arithmetic
\* A float is the fraction <<n, d>>, d a power of two, in lowest terms.  Every
\* operation rounds its exact result to the nearest value with a mantissa of
\* MantissaBits bits, ties to even, as f64 does with its 53 bits.
MantissaBits == 8
MaxPrice == 13
MaxSize == 3

RECURSIVE Pow2(_)
Pow2(k) == IF k = 0 THEN 1 ELSE 2 * Pow2(k - 1)

\* a / b rounded to the nearest integer, ties to even.
RoundDiv(a, b) ==
    LET q == a \div b
        r == a % b
    IN  IF 2 * r > b \/ (2 * r = b /\ q % 2 = 1) THEN q + 1 ELSE q

RECURSIVE Reduce(_, _)
Reduce(n, d) == IF n % 2 = 0 /\ d % 2 = 0 THEN Reduce(n \div 2, d \div 2) ELSE <<n, d>>

\* The float nearest to n / d.
RECURSIVE Round(_, _)
Round(n, d) ==
    IF n = 0 THEN <<0, 1>>
    ELSE IF n >= d * Pow2(MantissaBits)
         THEN LET r == Round(n, 2 * d) IN Reduce(2 * r[1], r[2])
    ELSE IF n < d * Pow2(MantissaBits - 1)
         THEN LET r == Round(2 * n, d) IN Reduce(r[1], 2 * r[2])
    ELSE <<RoundDiv(n, d), 1>>

Mul(a, b) == Round(a[1] * b[1], a[2] * b[2])
Div(a, b) == Round(a[1] * b[2], a[2] * b[1])

\* ---------------------------------------------------------------- quantities
\* A pair is <<base, quote>>, the text being base/quote.
\* okex CONTRACT_VALUES: the rows of BTC and ETH, each literal as the float
\* nearest to it.
OKEX_CONTRACT_VALUES ==
    [ LinearSwap |-> [p \in { <<"BTC", "USDT">>, <<"ETH", "USDT">> } |->
                          IF p[1] = "BTC" THEN Round(1, 100) ELSE Round(1, 10)],
      LinearFuture |-> [p \in { <<"BTC", "USDT">>, <<"ETH", "USDT">> } |->
                          IF p[1] = "BTC" THEN Round(1, 100) ELSE Round(1, 10)],
      EuropeanOption |-> [p \in { <<"BTC", "USD">>, <<"ETH", "USD">> } |->
                          IF p[1] = "BTC" THEN Round(1, 10) ELSE Round(1, 1)] ]

InverseMarkets == { "InverseSwap", "InverseFuture" }
LinearMarkets == { "LinearSwap", "LinearFuture", "EuropeanOption" }

\* okex::get_contract_value with 100 for every inverse pair.
okex_get_contract_value_AllBTC(market_type, pair) ==
    IF market_type \in InverseMarkets THEN Some(Round(100, 1))
    ELSE IF market_type \in LinearMarkets THEN Some(OKEX_CONTRACT_VALUES[market_type][pair])
    ELSE None

\* okex::get_contract_value.
okex_get_contract_value(market_type, pair) ==
    IF market_type \in InverseMarkets
    THEN Some(IF pair[1] = "BTC" THEN Round(100, 1) ELSE Round(10, 1))
    ELSE IF market_type \in LinearMarkets THEN Some(OKEX_CONTRACT_VALUES[market_type][pair])
    ELSE None

\* calc_quantity_and_volume for okex: (quantity_base, quantity_quote,
\* quantity_contract).
calc_quantity_and_volume(market_type, pair, price, quantity) ==
    LET contract_value == okex_get_contract_value(market_type, pair)
    IN  IF market_type \in InverseMarkets
        THEN LET quantity_quote == Mul(quantity, contract_value.v)
             IN  <<Div(quantity_quote, price), quantity_quote, Some(quantity)>>
        ELSE IF market_type \in LinearMarkets
        THEN LET quantity_base == Mul(quantity, contract_value.v)
             IN  <<quantity_base, Mul(price, quantity_base), Some(quantity)>>
        ELSE <<quantity, Mul(price, quantity), None>>

\* coinbase_pro::parse_order, of a level whose strings parse as price and
\* quantity.
coinbase_pro_parse_order(price, quantity) ==
    [ price |-> price, quantity_base |-> quantity,
      quantity_quote |-> Mul(price, quantity), quantity_contract |-> None ]

\* The instruments of okex the records are computed for, with their market.
OkexInstruments ==
    (InverseMarkets \X { <<"BTC", "USD">>, <<"ETH", "USD">> })
    \cup ({ "LinearSwap", "LinearFuture" } \X { <<"BTC", "USDT">>, <<"ETH", "USDT">> })
    \cup ({ "EuropeanOption" } \X { <<"BTC", "USD">>, <<"ETH", "USD">> })
    \cup { <<"Spot", <<"BTC", "USDT">>>> }
Prices == { Round(p, 1) : p \in 1..MaxPrice }
RawSizes == { Round(q, 1) : q \in 1..MaxSize }

okex_record(market_type, pair, price, quantity) ==
    LET r == calc_quantity_and_volume(market_type, pair, price, quantity)
    IN  /\ call' = [fn |-> "calc_quantity_and_volume", exchange |-> "okex",
                    market_type |-> market_type, pair |-> pair,
                    price |-> price, raw_size |-> quantity,
                    quantity_base |-> r[1], quantity_quote |-> r[2],
                    quantity_contract |-> r[3]]
        /\ UNCHANGED client_vars

coinbase_record(price, quantity) ==
    LET r == coinbase_pro_parse_order(price, quantity)
    IN  /\ call' = [fn |-> "calc_quantity_and_volume", exchange |-> COINBASE_EXCHANGE_NAME,
                    market_type |-> "Spot", pair |-> <<"BTC", "USD">>,
                    price |-> r.price, raw_size |-> quantity,
                    quantity_base |-> r.quantity_base, quantity_quote |-> r.quantity_quote,
                    quantity_contract |-> r.quantity_contract]
        /\ UNCHANGED client_vars

NextQuantity ==
    \/ \E i \in OkexInstruments, price \in Prices, quantity \in RawSizes :
           okex_record(i[1], i[2], price, quantity)
    \/ \E price \in Prices, quantity \in RawSizes : coinbase_record(price, quantity)

SpecQuantity == InitNoClient /\ [][NextQuantity]_vars

IsQuantityCall(c) == c.fn = "calc_quantity_and_volume"

\* The contract value the quantity model names for the record's instrument.
ContractValueOf(c) ==
    IF c.market_type \in InverseMarkets
    THEN IF c.pair[1] = "BTC" THEN Round(100, 1) ELSE Round(10, 1)
    ELSE OKEX_CONTRACT_VALUES[c.market_type][c.pair]

\* base, quote and contract of a record as the three rules give them.
QuantityRules(c) ==
    IF c.market_type \in InverseMarkets
    THEN /\ c.quantity_quote = Mul(c.raw_size, ContractValueOf(c))
         /\ c.quantity_base = Div(c.quantity_quote, c.price)
         /\ c.quantity_contract = Some(c.raw_size)
    ELSE IF c.market_type \in LinearMarkets
    THEN /\ c.quantity_base = Mul(c.raw_size, ContractValueOf(c))
         /\ c.quantity_quote = Mul(c.price, c.quantity_base)
         /\ c.quantity_contract = Some(c.raw_size)
    ELSE /\ c.quantity_base = c.raw_size
         /\ c.quantity_quote = Mul(c.price, c.quantity_base)
         /\ c.quantity_contract = None

\* |quote - price * base| is at most the rounding error of two operations,
\* 3 / 2^MantissaBits of quote.
QuoteNearPriceTimesBase(c) ==
    LET product == Mul(c.price, c.quantity_base)
        quote == c.quantity_quote
        diff == product[1] * quote[2] - quote[1] * product[2]
    IN  (IF diff < 0 THEN 0 - diff ELSE diff) * Pow2(MantissaBits)
            <= 3 * quote[1] * product[2]

OrderNumbers == { Round(0, 1), Round(1, 1), Round(3, 2) }
Orders ==
    [ price : OrderNumbers, quantity_base : OrderNumbers, quantity_quote : OrderNumbers,
      quantity_contract : { None } \cup { Some(x) : x \in OrderNumbers } ]

\* Serialize for Order that never writes the contract quantity.
serialize_NoContract(order) ==
    << order.price, order.quantity_base, order.quantity_quote >>

\* Serialize for Order: the JSON array, as the sequence of its numbers.
serialize(order) ==
    << order.price, order.quantity_base, order.quantity_quote >>
        \o (IF IsSome(order.quantity_contract) THEN << order.quantity_contract.v >> ELSE <<>>)

\* OrderVisitor::visit_seq on a JSON array of numbers: indexing past the end
\* of the vector panics.
deserialize(text) ==
    IF Len(text) < 3 THEN ParsePanic
    ELSE ParseOk(<< [ price |-> text[1], quantity_base |-> text[2],
                      quantity_quote |-> text[3],
                      quantity_contract |-> IF Len(text) = 4 THEN Some(text[4]) ELSE None ] >>)

order_round_trip(order) ==
    /\ call' = [fn |-> "Order::deserialize(serialize)", order |-> order,
                text |-> serialize(order), back |-> deserialize(serialize(order))]
    /\ UNCHANGED client_vars

NextOrder == \E order \in Orders : order_round_trip(order)

SpecOrder == InitNoClient /\ [][NextOrder]_vars

\* C21: an Order without quantity_contract serializes to the 3-element array
\* [price, quantity_base, quantity_quote], one with it to the 4-element array
\* with the contract quantity last, and deserializing the array gives the
\* Order back field by field.
C21_OrderRoundTrip ==
    call.fn = "Order::deserialize(serialize)" =>
        /\ Len(call.text) = (IF IsSome(call.order.quantity_contract) THEN 4 ELSE 3)
        /\ call.text[1] = call.order.price
        /\ call.text[2] = call.order.quantity_base
        /\ call.text[3] = call.order.quantity_quote
        /\ IsSome(call.order.quantity_contract)
               => call.text[4] = call.order.quantity_contract.v
        /\ call.back.kind = "Ok"
        /\ Len(call.back.records) = 1
        /\ call.back.records[1].price = call.order.price
        /\ call.back.records[1].quantity_base = call.order.quantity_base
        /\ call.back.records[1].quantity_quote = call.order.quantity_quote
        /\ call.back.records[1].quantity_contract = call.order.quantity_contract

\* An Order with a contract quantity that differs from its other fields has
\* made the round trip.
C21_Witness ==
    /\ call.fn = "Order::deserialize(serialize)"
    /\ IsSome(call.order.quantity_contract)
    /\ call.order.quantity_contract.v # call.order.quantity_quote
    /\ call.order.price # call.order.quantity_base
    /\ Len(call.text) = 4

\* ---------------------------------------------------------------- market type of a record
\* A symbol is the sequence of its characters.
Digits == { "0", "1", "2", "3", "4", "5", "6", "7", "8", "9" }
StartsWith(s, prefix) == Len(s) >= Len(prefix) /\ SubSeq(s, 1, Len(prefix)) = prefix
EndsWith(s, suffix) ==
    Len(s) >= Len(suffix) /\ SubSeq(s, Len(s) - Len(suffix) + 1, Len(s)) = suffix

\* date.parse::<i64>().is_ok() for a text of two characters: two digits, or a
\* sign and a digit.
ParsesAsI64(date) == date[1] \in Digits \cup { "+", "-" } /\ date[2] \in Digits

\* bitmex symbols: swaps and futures of the index table, and a text of two
\* characters.
BitmexTradeSymbols ==
    { <<"X", "B", "T", "U", "S", "D">>,
      <<"X", "B", "T", "E", "U", "R">>,
      <<"E", "T", "H", "U", "S", "D">>,
      <<"E", "T", "H", "7", "D">>,
      <<"X", "B", "T", "H", "2", "1">>,
      <<"X", "B", "T", "E", "U", "R", "Z", "2", "1">>,
      <<"X", "B", "T", "7", "D", "_", "U", "1", "0", "5">>,
      <<"E", "T", "H", "U", "S", "D", "Z", "2", "1">>,
      <<"E", "T", "H", "Z", "2", "1">>,
      <<"A", "D", "A", "H", "2", "1">>,
      <<"A", "D", "A", "U", "S", "D", "T", "H", "2", "1">>,
      <<"2", "1">> }

\* The inference of the market type with every future that is not inverse
\* taken as quanto.
get_market_type_from_symbol_NoLinear(symbol) ==
    IF Len(symbol) < 2 THEN "panic"
    ELSE IF ParsesAsI64(SubSeq(symbol, Len(symbol) - 1, Len(symbol)))
    THEN IF StartsWith(symbol, <<"X", "B", "T">>) THEN "InverseFuture" ELSE "QuantoFuture"
    ELSE IF StartsWith(symbol, <<"X", "B", "T">>) THEN "InverseSwap" ELSE "QuantoSwap"

\* bitmex::get_market_type_from_symbol; slicing outside the text panics.
get_market_type_from_symbol(symbol) ==
    IF Len(symbol) < 2 THEN "panic"
    ELSE IF ParsesAsI64(SubSeq(symbol, Len(symbol) - 1, Len(symbol)))
    THEN IF StartsWith(symbol, <<"X", "B", "T">>) THEN "InverseFuture"
         ELSE IF Len(symbol) < 3 THEN "panic"
         ELSE IF EndsWith(SubSeq(symbol, 1, Len(symbol) - 3), <<"U", "S", "D">>)
              THEN "QuantoFuture"
              ELSE "LinearFuture"
    ELSE IF StartsWith(symbol, <<"X", "B", "T">>) THEN "InverseSwap" ELSE "QuantoSwap"

KUCOIN_EXCHANGE_NAME == "kucoin"
MarketTypes ==
    { "Unknown", "Spot", "InverseSwap", "InverseFuture", "LinearSwap", "LinearFuture",
      "QuantoSwap", "QuantoFuture" }

\* The symbols of the well-formed trade messages of each exchange.
TradeSymbols(exchange) ==
    IF exchange = BITMEX_EXCHANGE_NAME THEN BitmexTradeSymbols
    ELSE IF exchange = COINBASE_EXCHANGE_NAME
    THEN { <<"B", "T", "C", "-", "U", "S", "D">>, <<"E", "T", "H", "-", "U", "S", "D">> }
    ELSE { <<"X", "B", "T", "U", "S", "D", "M">>, <<"X", "B", "T", "U", "S", "D", "T", "M">> }

\* parse_trade of bitmex, coinbase_pro and kucoin_swap on a well-formed trade
\* message of the symbol: the market type of the record, and the market type
\* handed to calc_quantity_and_volume where the parser calls it.
parse_trade(exchange, market_type, symbol) ==
    IF exchange = BITMEX_EXCHANGE_NAME
    THEN LET inferred == IF market_type = "Unknown"
                         THEN get_market_type_from_symbol(symbol)
                         ELSE market_type
         IN  IF inferred = "panic" THEN ParsePanic
             ELSE ParseOk(<< [exchange |-> exchange, market_type |-> inferred,
                              symbol |-> symbol, quantity_market_type |-> None] >>)
    ELSE IF exchange = COINBASE_EXCHANGE_NAME
    THEN ParseOk(<< [exchange |-> exchange, market_type |-> market_type,
                     symbol |-> symbol, quantity_market_type |-> None] >>)
    ELSE ParseOk(<< [exchange |-> exchange, market_type |-> market_type,
                     symbol |-> symbol, quantity_market_type |-> Some(market_type)] >>)

infer_market_type(symbol) ==
    /\ call' = [fn |-> "bitmex::get_market_type_from_symbol", symbol |-> symbol,
                result |-> get_market_type_from_symbol(symbol)]
    /\ UNCHANGED client_vars

parse_trade_market(exchange, market_type, symbol) ==
    /\ call' = [fn |-> "parse_trade", exchange |-> exchange, market_type |-> market_type,
                symbol |-> symbol, result |-> parse_trade(exchange, market_type, symbol)]
    /\ UNCHANGED client_vars

NextMarketType ==
    \/ \E symbol \in BitmexTradeSymbols : infer_market_type(symbol)
    \/ \E exchange \in { BITMEX_EXCHANGE_NAME, COINBASE_EXCHANGE_NAME, KUCOIN_EXCHANGE_NAME } :
           \E market_type \in MarketTypes, symbol \in TradeSymbols(exchange) :
               parse_trade_market(exchange, market_type, symbol)

SpecMarketType == InitNoClient /\ [][NextMarketType]_vars

\* C22: when the caller passes market_type Unknown, the emitted records carry
\* a market type other than Unknown, and the quantity computation uses the
\* market type of the record.
C22_UnknownInferred ==
    ( /\ call.fn = "parse_trade" /\ call.market_type = "Unknown"
      /\ call.result.kind = "Ok" ) =>
        \A i \in DOMAIN call.result.records :
            /\ call.result.records[i].market_type # "Unknown"
            /\ IsSome(call.result.records[i].quantity_market_type)
                   => call.result.records[i].quantity_market_type.v
                          = call.result.records[i].market_type

IsInference(c) == c.fn = "bitmex::get_market_type_from_symbol" /\ Len(c.symbol) >= 3
IsFutureSymbol(symbol) ==
    /\ symbol[Len(symbol)] \in Digits
    /\ symbol[Len(symbol) - 1] \in Digits \cup { "+", "-" }

\* C27 as stated: a symbol whose last two characters are numeric is a future,
\* inverse when the base is XBT and quanto otherwise; any other symbol is a
\* swap, inverse when it starts with XBT and quanto otherwise; the inference
\* never yields a linear type.
C27_NeverLinear ==
    IsInference(call) =>
        /\ call.result \in { "InverseFuture", "QuantoFuture", "InverseSwap", "QuantoSwap" }
        /\ call.result \in { "InverseFuture", "QuantoFuture" } <=> IsFutureSymbol(call.symbol)
        /\ call.result \in { "InverseFuture", "InverseSwap" }
               <=> call.symbol[1] = "X" /\ call.symbol[2] = "B" /\ call.symbol[3] = "T"

\* C27: a symbol of three characters or more whose last two characters are
\* numeric is a future: inverse when it starts with XBT, else quanto when the
\* text before its last three characters ends with USD, else linear.  Any
\* other symbol is a swap, inverse when it starts with XBT and quanto
\* otherwise.
C27_InferredMarketType ==
    IsInference(call) =>
        LET xbt == call.symbol[1] = "X" /\ call.symbol[2] = "B" /\ call.symbol[3] = "T"
            n == Len(call.symbol)
            usd == n >= 6 /\ call.symbol[n - 5] = "U" /\ call.symbol[n - 4] = "S"
                   /\ call.symbol[n - 3] = "D"
        IN  /\ call.result \in { "InverseFuture", "QuantoFuture", "LinearFuture" }
                   <=> IsFutureSymbol(call.symbol)
            /\ call.result \in { "InverseSwap", "QuantoSwap" }
                   <=> ~IsFutureSymbol(call.symbol)
            /\ call.result \in { "InverseFuture", "InverseSwap" } <=> xbt
            /\ call.result = "QuantoFuture" <=> IsFutureSymbol(call.symbol) /\ ~xbt /\ usd
            /\ call.result = "LinearFuture" <=> IsFutureSymbol(call.symbol) /\ ~xbt /\ ~usd

\* The inference has given a linear future for a symbol of the index table.
C27_Witness ==
    /\ IsInference(call)
    /\ call.symbol = <<"A", "D", "A", "H", "2", "1">>
    /\ call.result = "LinearFuture"

\* ---------------------------------------------------------------- client pings
\* C23: in client-ping mode num_unanswered_ping is the number of pings the
\* engine has sent since the last Pong.
C23_CounterCountsPings ==
    ClientPingMode => num_unanswered_ping = pings_since_pong

\* The frame the configuration asks for: a Ping frame for an empty payload, a
\* Text frame with the payload otherwise.
ConfiguredPing ==
    LET payload == cfg.client_ping_interval_and_msg.v[2]
    IN  IF payload = <<>> THEN [t |-> "Ping", data |-> <<>>]
        ELSE [t |-> "Text", txt |-> payload]

\* C24 as stated: the engine sends a ping only when no earlier ping is still
\* unanswered, and the ping is the configured frame.
C24_PingOnlyWhenNonePending ==
    [][ wire' # wire =>
            /\ ClientPingMode
            /\ wire' = Append(wire, [by |-> "engine", frame |-> ConfiguredPing,
                                     conn |-> connects])
            /\ pings_since_pong' = 1 ]_vars

\* C24: in client-ping mode the engine sends a ping at the end of a pass
\* through the loop whenever interval / 2 seconds (integer division) have
\* gone by since the last one, whether or not that one was answered, and the
\* ping is the configured frame; in server-ping mode it sends none.
C24_PingEveryHalfInterval ==
    [][ /\ wire' # wire =>
            /\ ClientPingMode
            /\ wire' = Append(wire, [by |-> "engine", frame |-> ConfiguredPing,
                                     conn |-> connects])
            /\ now - last_ping_timestamp >= cfg.client_ping_interval_and_msg.v[1] \div 2
            /\ last_ping_timestamp' = now
            /\ pings_since_pong' \in { 1, pings_since_pong + 1 }
        /\ ( /\ ClientPingMode /\ pc = "read" /\ pc' = "loop" /\ sock' = "Active"
             /\ now - last_ping_timestamp >= cfg.client_ping_interval_and_msg.v[1] \div 2 )
               => wire' # wire ]_vars

\* Two pings with a text payload are on the wire and none was answered.
C24_Witness ==
    /\ ClientPingMode /\ cfg.client_ping_interval_and_msg.v[2] # <<>>
    /\ pings_since_pong = 2
    /\ Len(wire) = 2 /\ wire[1].frame = ConfiguredPing /\ wire[2].frame = ConfiguredPing

\* C30: in client-ping mode read timeouts alone never terminate the engine:
\* however many consecutive read timeouts have occurred, run() has not taken
\* the exit on the read-timeout count, and with more than 5 of them the
\* engine is still running.
C30_TimeoutsNotFatal ==
    ClientPingMode =>
        /\ ~ExitedBy("num_read_timeout")
        /\ num_read_timeout > 5 => status = "running"

\* Seven consecutive read timeouts have occurred in client-ping mode and the
\* engine is about to read again.
C30_Witness ==
    /\ ClientPingMode /\ num_read_timeout = 7
    /\ status = "running" /\ pc = "read"

\* ---------------------------------------------------------------- answering pings
\* Ping frames, on a client that another task may close.
PongReads(s) == { r \in ReadOutcomes(s) : r.t = "Ping" }

InitPong == InitBuilt(LiveConfigs)

NextPong ==
    \/ run_start(None)
    \/ run_check
    \/ Tick(MaxElapsed)
    \/ \E r \in PongReads(sock) : run_iteration(r)
    \/ close_store
    \/ \E ok \in BOOLEAN : close_socket(ok)

SpecPong == InitPong /\ [][NextPong]_vars

\* The frames a step has added to the wire.
NewFrames == SubSeq(wire', Len(wire) + 1, Len(wire'))

NextConcurrentSubscribe ==
    \/ \E t \in Tasks, req \in Requests : subscribe(t, req)
    \/ \E t \in Tasks, k \in 0..MaxReq : send_commands(t, k)

SpecConcurrentSubscribe == InitSub /\ [][NextConcurrentSubscribe]_vars

IsCommandFor(w, ch) == IsCommand(w) /\ ch \in Range(w.frame.cmd.args)
WrittenFor(ch) == { i \in DOMAIN wire : IsCommandFor(wire[i], ch) }
PendingFor(ch) == { t \in Tasks : sub[t].pc = "write" /\ ch \in Range(sub[t].diff) }

\* C29: under every interleaving of the two halves of concurrent subscribe
\* calls a channel is in the diff of at most one call, its command is never
\* written twice, and once every call has returned the command of every
\* subscribed channel is on the wire exactly once.
C29_SubscribedOnce ==
    /\ \A ch \in Channels :
          /\ Cardinality(WrittenFor(ch)) <= 1
          /\ Cardinality(PendingFor(ch)) <= 1
    /\ \A t \in Tasks : sub[t].pc = "write" =>
          \A i, j \in DOMAIN sub[t].diff : i # j => sub[t].diff[i] # sub[t].diff[j]
    /\ status = "running" =>
          \A ch \in Channels :
              Cardinality(WrittenFor(ch)) + Cardinality(PendingFor(ch))
                  = IF ch \in channels THEN 1 ELSE 0
    /\ (status = "running" /\ \A t \in Tasks : sub[t].pc = "idle") =>
          \A ch \in channels : Cardinality(WrittenFor(ch)) = 1

\* Both calls have returned; the second call asked for a channel the first
\* had taken while the first had not written yet, and wrote before it.
C29_Witness ==
    /\ status = "running"
    /\ \A t \in Tasks : sub[t].pc = "idle"
    /\ last_call.op = "subscribe"
    /\ Range(last_call.req) \cap last_call.before # {}
    /\ last_call.diff # <<>>
    /\ \E i, j \in DOMAIN wire :
          /\ i < j
          /\ wire[i].by = "t2" /\ wire[j].by = "t1"
          /\ \E ch \in Range(last_call.req) \cap last_call.before :
                IsCommandFor(wire[j], ch)


\* ---------------------------------------------------------------- the three locks
\* The client's mutexes (ws_stream, channels, tx) and what each operation does
\* with them, step by step.  Each operation runs on a task of its own; the
\* state is kept in call: the owner of every lock, the steps every operation
\* has left, the should_stop flag and whether and where the process has exited.
Locks == { "ws_stream", "channels", "tx" }
Operations == { "run", "subscribe", "unsubscribe", "close", "_reconnect" }

Lock(l) == [a |-> "lock", l |-> l]
Unlock(l) == [a |-> "unlock", l |-> l]
WriteOrExit == [a |-> "write", l |-> "ws_stream"]
StoreStop == [a |-> "stop", l |-> "none"]
ProcessExit == [a |-> "exit", l |-> "none"]

\* A guard taken, used and dropped: a scoped block, a let-bound guard that
\* lives to the end of its block, or a temporary of one statement.
Critical(l, inside) == <<Lock(l)>> \o inside \o <<Unlock(l)>>

\* subscribe_or_unsubscribe without the block around the channels guard: the
\* guard lives to the end of the function.
subscribe_or_unsubscribe_steps_Unscoped(diff_empty) ==
    Critical("channels",
             IF diff_empty THEN <<>> ELSE Critical("ws_stream", <<WriteOrExit>>))

\* The channels guard is dropped at the end of its block, then the socket is
\* locked for the writes if there is anything to write.
subscribe_or_unsubscribe_steps(diff_empty) ==
    Critical("channels", <<>>)
        \o (IF diff_empty THEN <<>> ELSE Critical("ws_stream", <<WriteOrExit>>))

\* _reconnect: the socket replaced in a block, the channels copied by one
\* statement, the socket locked again for the replay.
reconnect_steps(channels_empty) ==
    Critical("ws_stream", <<>>) \o Critical("channels", <<>>)
        \o (IF channels_empty THEN <<>> ELSE Critical("ws_stream", <<>>))

get_error_msg_steps == Critical("channels", <<>>)

MiscKinds == { "Misc", "Pong", "Reconnect", "WebSocket", "Normal" }

handle_msg_steps(misc) ==
    CASE misc = "Reconnect" -> <<ProcessExit>>
      [] misc = "WebSocket" -> Critical("ws_stream", <<>>)
      [] misc = "Normal" -> Critical("tx", <<>>)
      [] OTHER -> <<>>

\* What one iteration of run() does after its read, by what was read.
RunArms == MiscKinds \cup { "Ping", "Close", "CloseAbnormal", "Timeout", "Fatal" }

\* An iteration of run() whose read never gives the socket back.
run_steps_ReadHoldsSocket(arm, ping) == <<Lock("ws_stream")>>

\* One iteration of run(): the read under the socket lock, the arm of the
\* match, then the client's ping if one is due.
run_steps(arm, ping) ==
    Critical("ws_stream", <<>>)
        \o (CASE arm \in MiscKinds -> handle_msg_steps(arm)
              [] arm = "Ping" -> Critical("ws_stream", <<>>)
              [] arm = "CloseAbnormal" -> get_error_msg_steps \o <<ProcessExit>>
              [] arm = "Fatal" -> <<ProcessExit>>
              [] OTHER -> <<>>)
        \o (IF ping THEN Critical("ws_stream", <<>>) ELSE <<>>)

close_steps == <<StoreStop>> \o Critical("ws_stream", <<>>)

Programs(op) ==
    CASE op = "run" -> { run_steps(arm, ping) : arm \in RunArms, ping \in BOOLEAN }
      [] op \in { "subscribe", "unsubscribe" } ->
            { subscribe_or_unsubscribe_steps(e) : e \in BOOLEAN }
      [] op = "close" -> { close_steps }
      [] op = "_reconnect" -> { reconnect_steps(e) : e \in BOOLEAN }

NoLocksHeld ==
    [fn |-> "locks", owner |-> [l \in Locks |-> "free"],
     todo |-> [op \in Operations |-> <<>>], should_stop |-> FALSE, exited |-> "no"]

LocksLive == call.fn = "locks" /\ call.exited = "no"
NextStep(op, a) == LocksLive /\ call.todo[op] # <<>> /\ Head(call.todo[op]).a = a

\* new(): the three mutexes are created unlocked.
new_locks ==
    /\ call = NoCall
    /\ call' = NoLocksHeld
    /\ UNCHANGED client_vars

\* An operation is called; for run() this is the loop test and one iteration.
begin(op, steps) ==
    /\ LocksLive
    /\ call.todo[op] = <<>>
    /\ op = "run" => ~call.should_stop
    /\ steps \in Programs(op)
    /\ call' = [call EXCEPT !.todo[op] = steps]
    /\ UNCHANGED client_vars

\* lock(): granted only when the mutex is free.
acquire(op) ==
    /\ NextStep(op, "lock")
    /\ call.owner[Head(call.todo[op]).l] = "free"
    /\ call' = [call EXCEPT !.todo[op] = Tail(@),
                            !.owner[Head(call.todo[op]).l] = op]
    /\ UNCHANGED client_vars

\* The guard is dropped.
release(op) ==
    /\ NextStep(op, "unlock")
    /\ call' = [call EXCEPT !.todo[op] = Tail(@),
                            !.owner[Head(call.todo[op]).l] = "free"]
    /\ UNCHANGED client_vars

\* The writes of subscribe_or_unsubscribe: a failed write exits the process.
write_commands(op, ok) ==
    /\ NextStep(op, "write")
    /\ call' = IF ok THEN [call EXCEPT !.todo[op] = Tail(@)]
               ELSE [call EXCEPT !.exited = "write failed"]
    /\ UNCHANGED client_vars

store_stop(op) ==
    /\ NextStep(op, "stop")
    /\ call' = [call EXCEPT !.todo[op] = Tail(@), !.should_stop = TRUE]
    /\ UNCHANGED client_vars

process_exit(op) ==
    /\ NextStep(op, "exit")
    /\ call' = [call EXCEPT !.exited = "run"]
    /\ UNCHANGED client_vars

NextLocks ==
    \/ new_locks
    \/ \E op \in Operations : \E steps \in Programs(op) : begin(op, steps)
    \/ \E op \in Operations : acquire(op)
    \/ \E op \in Operations : release(op)
    \/ \E op \in Operations, ok \in BOOLEAN : write_commands(op, ok)
    \/ \E op \in Operations : store_stop(op)
    \/ \E op \in Operations : process_exit(op)

SpecLocks == InitNoClient /\ [][NextLocks]_vars

\* Every step that needs no lock is taken, every read and write under a
\* lock returns and the guard is dropped, and a task that keeps finding the
\* mutex free over and over is granted it.
SpecLocksFair ==
    /\ SpecLocks
    /\ \A op \in Operations :
          /\ WF_vars(release(op))
          /\ WF_vars(\E ok \in BOOLEAN : write_commands(op, ok))
          /\ WF_vars(store_stop(op))
          /\ WF_vars(process_exit(op))
          /\ SF_vars(acquire(op))

Held(op) == { l \in Locks : call.owner[l] = op }
Blocked(op) ==
    /\ call.todo[op] # <<>>
    /\ Head(call.todo[op]).a = "lock"
    /\ call.owner[Head(call.todo[op]).l] # "free"

\* C28: no operation holds two of the three locks at once; the holder of a
\* lock has the drop of its guard ahead of it, and an operation that waits for
\* a lock waits for a holder that is itself not waiting, so no interleaving
\* of run, subscribe, unsubscribe, close and _reconnect deadlocks.
C28_OneLockAtATime ==
    call.fn = "locks" =>
        /\ \A op \in Operations : Cardinality(Held(op)) <= 1
        /\ \A l \in Locks : call.owner[l] # "free" =>
              \E i \in DOMAIN call.todo[call.owner[l]] :
                  call.todo[call.owner[l]][i] = Unlock(l)
        /\ \A op \in Operations : Blocked(op) =>
              LET holder == call.owner[Head(call.todo[op]).l]
              IN  holder # op /\ ~Blocked(holder)

\* Two locks are held by two operations and the other operations wait
\* for them.
C28_Witness ==
    /\ LocksLive
    /\ call.owner["channels"] = "subscribe"
    /\ call.owner["ws_stream"] = "_reconnect"
    /\ Blocked("run") /\ Blocked("unsubscribe") /\ Blocked("close")

Callers == { "subscribe", "unsubscribe" }
Pending(op) == call.fn = "locks" /\ call.todo[op] # <<>>
Returned(op) == LocksLive /\ call.todo[op] = <<>>
ProcessExitedBy(who) == call.fn = "locks" /\ call.exited = who

\* C26 as stated: while run() goes on, a subscribe or unsubscribe call in
\* progress eventually has written its commands and returned.
C26_CallReturns ==
    \A op \in Callers : Pending(op) ~> (Returned(op) \/ ProcessExitedBy("run"))

\* C26: with reads that return and a socket lock granted fairly, a subscribe
\* or unsubscribe call in progress eventually returns, unless the process
\* exits first (a write of a call failed, or run() left by exit).
C26_CallReturnsOrExits ==
    \A op \in Callers :
        Pending(op) ~> (Returned(op) \/ ProcessExitedBy("run") \/ ProcessExitedBy("write failed"))

\* A subscribe call waits for the socket while run() holds it for a read.
C26_Witness ==
    /\ LocksLive
    /\ call.owner["ws_stream"] = "run"
    /\ Blocked("subscribe")
    /\ Head(call.todo["subscribe"]) = Lock("ws_stream")

====
